---- MODULE Spec2Model ----
(***************************************************************************)
(* Model of the magento2-onx adapter: the twelve onX tool handlers, the    *)
(* search-criteria builder and the Magento REST client's error mapping.    *)
(*                                                                         *)
(* A tool handler is an async function: it runs from one `await` of a      *)
(* transport call to the next without interruption.  Each handler is       *)
(* modelled by an Invoke action (entry up to the first await, or up to the *)
(* return when no call is made) and one action per awaited call (the       *)
(* response arrives and the handler runs on to its next await or to its    *)
(* return).  Text is a sequence of atoms: single characters where the code *)
(* inspects characters, whole chunks of fixed text otherwise (no fixed     *)
(* chunk contains a digit the code searches for).                          *)
(***************************************************************************)
EXTENDS Integers, Sequences, FiniteSets, TLC

VARIABLES
  world,  \* the deployment: configuration and transport fixed at process start,
          \* and the values callers and the platform draw from; never written
  inv     \* inv[i]: the invocation running in slot i (or the idle slot)

vars == <<world, inv>>

-----------------------------------------------------------------------------
(* Bounds of the model *)

MaxDetailLen == 3   \* longest error-detail text a platform response carries
MaxItems == 2       \* most entities in one platform list response
MaxIds == 2         \* longest id / sku list a caller passes

-----------------------------------------------------------------------------
(* Text *)

DetailChars == {"4", "0", "3"}

RECURSIVE TextsUpTo(_)
TextsUpTo(n) ==
  IF n = 0 THEN {<<>>}
  ELSE LET shorter == TextsUpTo(n - 1)
       IN shorter \cup {Append(t, c) : t \in {s \in shorter : Len(s) = n - 1}, c \in DetailChars}

DigitChar(d) ==
  CASE d = 0 -> "0" [] d = 1 -> "1" [] d = 2 -> "2" [] d = 3 -> "3" [] d = 4 -> "4"
    [] d = 5 -> "5" [] d = 6 -> "6" [] d = 7 -> "7" [] d = 8 -> "8" [] d = 9 -> "9"

\* String(n) / template interpolation of a non-negative integer
RECURSIVE NumberToText(_)
NumberToText(n) ==
  IF n < 10 THEN <<DigitChar(n)>>
  ELSE Append(NumberToText(n \div 10), DigitChar(n % 10))

\* String.prototype.includes
Includes(text, pat) ==
  \E k \in 1..(Len(text) - Len(pat) + 1) : SubSeq(text, k, k + Len(pat) - 1) = pat

\* the value `undefined` of an optional parameter or field
Absent == <<"undefined">>

-----------------------------------------------------------------------------
(* Thrown values *)

Thrown(kind, name, statusCode, message) ==
  [kind |-> kind, name |-> name, statusCode |-> statusCode, message |-> message]

\* class MagentoApiError extends Error
MagentoApiError(message, statusCode) ==
  Thrown("Error", "MagentoApiError", statusCode, message)

\* a property read on null (a mapper handed a malformed record)
TranslationTypeError == Thrown("Error", "TypeError", 0, <<"Cannot read properties of null">>)

\* fetch rejects: AbortSignal.timeout fired, or the connection failed
TimeoutError == Thrown("Error", "TimeoutError", 0, <<"The operation was aborted due to timeout">>)
NetworkError == Thrown("Error", "TypeError", 0, <<"fetch failed">>)
\* response.json() of a success response whose body is not JSON
BodySyntaxError == Thrown("Error", "SyntaxError", 0, <<"Unexpected token in JSON">>)
\* response.text() after response.json() already consumed the body
BodyUnusableError == Thrown("Error", "TypeError", 0, <<"Body is unusable">>)

\* what a transport other than MagentoClient may reject with: a value that is
\* no Error (a string: its .message is undefined), or null / undefined
NonErrorThrown == Thrown("value", "string", 0, <<"rejected">>)
NullishThrown == Thrown("nullish", "undefined", 0, <<>>)

IsError(e) == e.kind = "Error"
IsMagentoApiError(e) == e.kind = "Error" /\ e.name = "MagentoApiError"

-----------------------------------------------------------------------------
(* MagentoClient *)

FailStatuses == {400, 403, 404, 429, 500}

statusMessages(status) ==
  CASE status = 401 -> <<"Authentication failed - check M2_ACCESS_TOKEN or OAuth credentials">>
    [] status = 403 -> <<"Forbidden - the integration lacks permission for this resource">>
    [] status = 404 -> <<"Resource not found">>
    [] status = 429 -> <<"Rate limited - reduce request frequency">>
    [] OTHER -> <<>>

\* A non-success HTTP response: status, whether the body parses as JSON, and
\* the body's message field (empty: the JSON body has no message).
HttpFailures(statuses, details) ==
  [status : statuses, json : {TRUE}, detail : details]
    \cup [status : statuses, json : {FALSE}, detail : {<<>>}]

handleError(response, method, endpoint) ==
  IF response.json
  THEN LET errorBody == IF response.detail # <<>> THEN response.detail ELSE <<"{}">>
           context == statusMessages(response.status)
       IN MagentoApiError(
            <<"Magento API error: ", method, " ">> \o endpoint \o <<" returned ">>
              \o NumberToText(response.status) \o <<". ">> \o context
              \o (IF context # <<>> THEN <<". ">> ELSE <<>>)
              \o <<"Detail: ">> \o errorBody,
            response.status)
  ELSE BodyUnusableError

\* What `await client.get/post/put(endpoint, ...)` can do, seen from the
\* handler: resolve with a parsed body, or reject.  status is the HTTP status
\* of the response that arrived (0: fetch rejected, no response arrived).
OkOutcome(body) == [ok |-> TRUE, status |-> 200, body |-> body, thrown |-> NullishThrown]
FailOutcome(status, e) == [ok |-> FALSE, status |-> status, body |-> [wellFormed |-> FALSE], thrown |-> e]

\* if (!response.ok) await this.handleError(response, method, endpoint)
HttpRejections(method, endpoint, statuses, details) ==
  {FailOutcome(r.status, handleError(r, method, endpoint)) : r \in HttpFailures(statuses, details)}

\* every way the call can reject: the capability fork of the returns tools
\* reads the rejection, so their modern call is driven with all of these
ClientRejections(method, endpoint) ==
  HttpRejections(method, endpoint, FailStatuses, world.details)
    \cup {FailOutcome(0, TimeoutError), FailOutcome(0, NetworkError), FailOutcome(200, BodySyntaxError)}

\* a not-found, a server error and a timeout: the rejections the other calls
\* are driven with (their handlers do not look into the rejection)
PlainRejections(method, endpoint) ==
  HttpRejections(method, endpoint, {404, 500}, {<<>>}) \cup {FailOutcome(0, TimeoutError)}

AnyTransportRejections ==
  IF world.transport = "any"
  THEN {FailOutcome(0, NonErrorThrown), FailOutcome(0, NullishThrown)} ELSE {}

Outcomes(method, endpoint, bodies) ==
  {OkOutcome(b) : b \in bodies} \cup ClientRejections(method, endpoint) \cup AnyTransportRejections

PlainOutcomes(method, endpoint, bodies) ==
  {OkOutcome(b) : b \in bodies} \cup PlainRejections(method, endpoint) \cup AnyTransportRejections

-----------------------------------------------------------------------------
(* MagentoClient.buildSearchParams *)

\* String(n)
StringOfNumber(n) == IF n < 0 THEN <<"-">> \o NumberToText(0 - n) ELSE NumberToText(n)

\* a position counted from one (not the code's)
OneBased(k) == k

\* the index forEach hands to its callback for the k-th element
ForEachIndex(k) == k - 1

\* params.set(key, value): replaces the value of a key already there, or appends
ParamsSet(params, key, value) ==
  IF \E k \in DOMAIN params : params[k].key = key
  THEN [k \in DOMAIN params |-> IF params[k].key = key THEN [key |-> key, value |-> value] ELSE params[k]]
  ELSE Append(params, [key |-> key, value |-> value])

\* if (filter.conditionType)
HasConditionType(filter) == "conditionType" \in DOMAIN filter /\ filter.conditionType # ""

\* the body of group.filters.forEach for the f-th filter of the g-th group
SetFilter(params, filter, g, f) ==
  LET prefix == <<"searchCriteria[filterGroups][">> \o StringOfNumber(ForEachIndex(g))
                  \o <<"][filters][">> \o StringOfNumber(ForEachIndex(f)) \o <<"]">>
      named == ParamsSet(ParamsSet(params, prefix \o <<"[field]">>, <<filter.field>>),
                         prefix \o <<"[value]">>, filter.value)
  IN IF HasConditionType(filter)
     THEN ParamsSet(named, prefix \o <<"[conditionType]">>, <<filter.conditionType>>)
     ELSE named

\* criteria.filterGroups.forEach(group => group.filters.forEach(...)), from
\* filter f of group g on
RECURSIVE SetFilterGroups(_, _, _, _)
SetFilterGroups(params, groups, g, f) ==
  IF g > Len(groups) THEN params
  ELSE IF f > Len(groups[g].filters) THEN SetFilterGroups(params, groups, g + 1, 1)
  ELSE SetFilterGroups(SetFilter(params, groups[g].filters[f], g, f), groups, g, f + 1)

\* criteria.sortOrders.forEach(...), from sort k on
RECURSIVE SetSortOrders(_, _, _)
SetSortOrders(params, sortOrders, k) ==
  IF k > Len(sortOrders) THEN params
  ELSE LET prefix == <<"searchCriteria[sortOrders][">> \o StringOfNumber(ForEachIndex(k)) \o <<"]">>
       IN SetSortOrders(
            ParamsSet(ParamsSet(params, prefix \o <<"[field]">>, <<sortOrders[k].field>>),
                      prefix \o <<"[direction]">>, <<sortOrders[k].direction>>),
            sortOrders, k + 1)

\* the URLSearchParams, as its list of (key, value) pairs; an optional member
\* of the criteria is a key the record has or lacks
buildSearchParams(criteria) ==
  LET filtered == IF "filterGroups" \in DOMAIN criteria
                  THEN SetFilterGroups(<<>>, criteria.filterGroups, 1, 1) ELSE <<>>
      sorted == IF "sortOrders" \in DOMAIN criteria
                THEN SetSortOrders(filtered, criteria.sortOrders, 1) ELSE filtered
      paged == IF "currentPage" \in DOMAIN criteria
               THEN ParamsSet(sorted, <<"searchCriteria[currentPage]">>, StringOfNumber(criteria.currentPage))
               ELSE sorted
  IN IF "pageSize" \in DOMAIN criteria
     THEN ParamsSet(paged, <<"searchCriteria[pageSize]">>, StringOfNumber(criteria.pageSize))
     ELSE paged

-----------------------------------------------------------------------------
(* _helpers: result envelopes *)

NoData == [none |-> TRUE]

successResult(data) ==
  [kind |-> "envelope", success |-> TRUE, isError |-> FALSE, error |-> <<>>, data |-> data]

errorResult(message) ==
  [kind |-> "envelope", success |-> FALSE, isError |-> TRUE, error |-> message, data |-> NoData]

\* a value thrown out of the handler itself
Fault(e) ==
  [kind |-> "fault", success |-> FALSE, isError |-> TRUE, error |-> e.message, data |-> NoData]

NoResult ==
  [kind |-> "none", success |-> FALSE, isError |-> FALSE, error |-> <<>>, data |-> NoData]

\* error instanceof Error ? error.message : String(error)
GuardedMessage(e) ==
  IF IsError(e) THEN e.message
  ELSE IF e.kind = "nullish" THEN <<"undefined">> ELSE e.message

\* catch (error: unknown) { return errorResult(`<tool> failed: ${guarded}`) }
CatchGuarded(tool, e) == errorResult(<<tool, " failed: ">> \o GuardedMessage(e))

\* catch (error: any) { return errorResult(`<tool> failed: ${error.message}`) }
\* reading .message of null / undefined throws inside the catch block
CatchAny(tool, e) ==
  IF e.kind = "nullish" THEN Fault(Thrown("Error", "TypeError", 0, <<"Cannot read properties of undefined">>))
  ELSE IF IsError(e) THEN errorResult(<<tool, " failed: ">> \o e.message)
  ELSE errorResult(<<tool, " failed: ", "undefined">>)

-----------------------------------------------------------------------------
(* Invocations *)

NoArg == [none |-> TRUE]

IdleInv ==
  [tool |-> "", pc |-> "idle", input |-> NoData, calls |-> <<>>, resps |-> <<>>,
   loc |-> NoData, result |-> NoResult]

New(tool, input) == [IdleInv EXCEPT !.tool = tool, !.input = input, !.pc = "entered"]

\* the handler issues a transport call and suspends at its await
Await(r, method, endpoint, arg, pc) ==
  [r EXCEPT !.calls = Append(@, [method |-> method, endpoint |-> endpoint, arg |-> arg]),
            !.pc = pc]

\* the awaited call settles
Receive(r, o) == [r EXCEPT !.resps = Append(@, o)]

\* the handler returns (or a value escapes it)
Finish(r, result) == [r EXCEPT !.pc = "done", !.result = result]

SetLoc(r, loc) == [r EXCEPT !.loc = loc]

Slots == DOMAIN inv

-----------------------------------------------------------------------------
(* _helpers: search criteria *)

\* an optional number (or list of records) is the set of its values: {} is undefined
NoNumber == {}
NumberOf(n) == CHOOSE x \in n : TRUE
NoList == {}

\* a test that takes every value, undefined included, for present (not the code's)
AlwaysTruthy(t) == TRUE

\* JavaScript truthiness of an optional string / of an optional number
TruthyText(t) == t # Absent /\ t # <<>>
TruthyNumber(n) == n # NoNumber /\ NumberOf(n) # 0

\* Array.prototype.join(",")
RECURSIVE JoinComma(_)
JoinComma(ids) ==
  IF Len(ids) = 0 THEN <<>>
  ELSE IF Len(ids) = 1 THEN <<ids[1]>>
  ELSE <<ids[1], ",">> \o JoinComma(Tail(ids))

Filter(field, value, conditionType) ==
  [field |-> field, value |-> value, conditionType |-> conditionType]

Group(f) == [filters |-> <<f>>]

\* a filter on the first id alone (not the code's)
FirstIdFilter(field, ids) == Filter(field, <<ids[1]>>, "in")

idsFilter(field, ids) == Filter(field, JoinComma(ids), "in")

\* a test that takes an empty list for a given one (not the code's)
IsDefined(list) == list # Absent

\* params.ids?.length
HasLength(list) == list # Absent /\ Len(list) > 0

TemporalGroups(params) ==
  (IF TruthyText(params.createdAtMin)
     THEN <<Group(Filter("created_at", params.createdAtMin, "gteq"))>> ELSE <<>>)
  \o (IF TruthyText(params.createdAtMax)
     THEN <<Group(Filter("created_at", params.createdAtMax, "lteq"))>> ELSE <<>>)
  \o (IF TruthyText(params.updatedAtMin)
     THEN <<Group(Filter("updated_at", params.updatedAtMin, "gteq"))>> ELSE <<>>)
  \o (IF TruthyText(params.updatedAtMax)
     THEN <<Group(Filter("updated_at", params.updatedAtMax, "lteq"))>> ELSE <<>>)

\* all the extra filters in one group (not the code's)
ExtrasAsOneGroup(params) ==
  IF Len(params.extraFilters) = 0 THEN <<>> ELSE <<[filters |-> params.extraFilters]>>

ExtraGroups(params) ==
  [k \in 1..Len(params.extraFilters) |-> Group(params.extraFilters[k])]

\* a page count rounded up instead of down (not the code's)
CeilDiv(a, b) == IF b > 0 THEN (a + b - 1) \div b ELSE (0 - a - b - 1) \div (0 - b)

\* Math.floor(a / b) of two integers, b # 0
MathFloorDiv(a, b) == IF b > 0 THEN a \div b ELSE (0 - a) \div (0 - b)

\* The criteria value; the key filterGroups is left out of the record when
\* the code sets it to undefined.
buildSearchCriteria(params) ==
  LET filterGroups == TemporalGroups(params) \o ExtraGroups(params)
      pageSize == IF TruthyNumber(params.pageSize) THEN NumberOf(params.pageSize) ELSE 10
      skip == IF TruthyNumber(params.skip) THEN NumberOf(params.skip) ELSE 0
      currentPage == MathFloorDiv(skip, pageSize) + 1
      paging == [currentPage |-> currentPage, pageSize |-> pageSize,
                 sortOrders |-> <<[field |-> "created_at", direction |-> "DESC"]>>]
  IN IF Len(filterGroups) > 0
     THEN [filterGroups |-> filterGroups, currentPage |-> paging.currentPage,
           pageSize |-> paging.pageSize, sortOrders |-> paging.sortOrders]
     ELSE paging

\* { ...params, extraFilters }
WithExtra(params, extraFilters) ==
  [createdAtMin |-> params.createdAtMin, createdAtMax |-> params.createdAtMax,
   updatedAtMin |-> params.updatedAtMin, updatedAtMax |-> params.updatedAtMax,
   pageSize |-> params.pageSize, skip |-> params.skip, extraFilters |-> extraFilters]

IfList(list, field) == IF HasLength(list) THEN <<idsFilter(field, list)>> ELSE <<>>

D1 == <<"2024-01-01">>
D2 == <<"2024-12-31T23:59:59Z">>

\* TemporalPagination requests the handlers are driven with
NoPaging ==
  [createdAtMin |-> Absent, createdAtMax |-> Absent, updatedAtMin |-> Absent,
   updatedAtMax |-> Absent, pageSize |-> NoNumber, skip |-> NoNumber]

Pagings ==
  {NoPaging, [NoPaging EXCEPT !.createdAtMin = D1, !.pageSize = {5}, !.skip = {10}],
   [NoPaging EXCEPT !.skip = {0 - 10}]}

-----------------------------------------------------------------------------
(* get-returns *)

ListBody(items) == [wellFormed |-> TRUE, items |-> items]
NullBody == [wellFormed |-> FALSE]

\* list responses: up to MaxItems entities, or a body no mapper can read
ListBodies(entities) ==
  {ListBody([k \in 1..n |-> entities[k]]) : n \in 0..MaxItems} \cup {NullBody}

NsName(suffix) == <<world.vendorNs, suffix>>
CustomField(name, value) == [name |-> name, value |-> value]

CreditMemosEndpoint == <<"creditmemos">>

\* what the first call would target if a fallback that once succeeded were
\* remembered across invocations (the code keeps no such memory)
CachedCapabilityEndpoint ==
  IF \E j \in DOMAIN inv : inv[j].pc = "done" /\ Len(inv[j].calls) = 2 /\ inv[j].result.success
  THEN CreditMemosEndpoint ELSE <<"returns">>

ReturnsEndpoint == <<"returns">>

GetReturnsParams ==
  {[ids |-> ids, orderIds |-> Absent, statuses |-> st, returnNumbers |-> Absent, outcomes |-> Absent,
    paging |-> pg] : ids \in {Absent, <<"1">>}, st \in world.statusLists, pg \in world.pagings}

\* a record with no key: what JSON.stringify keeps of keys whose value is undefined
NoFields == [x \in {} |-> TRUE]

\* n || 0
OrZero(n) == IF TruthyNumber(n) THEN NumberOf(n) ELSE 0

\* a number kept with its sign (not the code's)
Signed(n) == n

\* Math.abs(n)
MathAbs(n) == IF n < 0 THEN 0 - n ELSE n

\* the k-th RMA has MaxItems + 1 - k items; an item's condition and resolution
\* are optional
RmaItem(j) ==
  [order_item_id |-> j, product_sku |-> <<"A">>, qty_requested |-> j,
   condition |-> IF j = 1 THEN <<"opened">> ELSE Absent, resolution |-> Absent]
Rmas ==
  [k \in 1..MaxItems |->
     [entity_id |-> k, order_id |-> 7, status |-> "pending",
      items |-> [j \in 1..(MaxItems + 1 - k) |-> RmaItem(j)]]]

\* the first credit memo has every amount, with adjustment_negative stored
\* negative; the second stores it positive; the others have no amounts
CreditMemos ==
  [k \in 1..MaxItems |->
     [entity_id |-> 10 + k, order_id |-> 7, invoice_id |-> 3,
      items |-> <<[order_item_id |-> 1, sku |-> <<"A">>, qty |-> k]>>,
      subtotal |-> IF k = 1 THEN {50} ELSE NoNumber,
      grand_total |-> IF k = 1 THEN {55} ELSE NoNumber,
      shipping_amount |-> IF k = 1 THEN {5} ELSE NoNumber,
      adjustment_negative |-> IF k = 1 THEN {0 - 3} ELSE IF k = 2 THEN {3} ELSE NoNumber]]

\* the Return as serialised: a key whose value is undefined is not there
mapRmaToOnx(rma) ==
  [id |-> NumberToText(rma.entity_id), orderId |-> NumberToText(rma.order_id),
   status |-> rma.status, outcome |-> "refund",
   returnLineItems |->
     [j \in DOMAIN rma.items |->
        [orderLineItemId |-> NumberToText(rma.items[j].order_item_id),
         sku |-> rma.items[j].product_sku,
         quantityReturned |-> rma.items[j].qty_requested,
         inspection |->
           (IF TruthyText(rma.items[j].condition)
              THEN [conditionCategory |-> rma.items[j].condition] ELSE NoFields)
           @@ (IF TruthyText(rma.items[j].resolution)
              THEN [dispositionOutcome |-> rma.items[j].resolution] ELSE NoFields)
           @@ [note |-> <<>>]]],
   customFields |-> <<CustomField(NsName(":return_type"), <<"rma">>),
                      CustomField(NsName(":rma_entity_id"), NumberToText(rma.entity_id))>>]

mapCreditMemoToOnx(cm) ==
  [id |-> NumberToText(cm.entity_id), orderId |-> NumberToText(cm.order_id),
   status |-> "refunded", outcome |-> "refund",
   returnLineItems |->
     [j \in DOMAIN cm.items |->
        [orderLineItemId |-> NumberToText(cm.items[j].order_item_id),
         sku |-> cm.items[j].sku, quantityReturned |-> cm.items[j].qty,
         returnReason |-> <<>>]],
   refundMethod |-> <<"original_payment">>, refundStatus |-> <<"refunded">>,
   shippingRefundAmount |-> OrZero(cm.shipping_amount),
   restockingFee |-> MathAbs(OrZero(cm.adjustment_negative)),
   customFields |-> <<CustomField(NsName(":return_type"), <<"credit_memo">>),
                      CustomField(NsName(":creditmemo_id"), NumberToText(cm.entity_id)),
                      CustomField(NsName(":invoice_id"), NumberToText(cm.invoice_id))>>]
  @@ (IF cm.subtotal # NoNumber THEN [returnTotal |-> NumberOf(cm.subtotal)] ELSE NoFields)
  @@ (IF cm.grand_total # NoNumber THEN [refundAmount |-> NumberOf(cm.grand_total)] ELSE NoFields)

RmaCriteria(params) ==
  buildSearchCriteria(WithExtra(params.paging,
    IfList(params.ids, "entity_id") \o IfList(params.orderIds, "order_id")
      \o IfList(params.statuses, "status") \o IfList(params.returnNumbers, "increment_id")))

CreditMemoCriteria(params) ==
  buildSearchCriteria(WithExtra(params.paging,
    IfList(params.ids, "entity_id") \o IfList(params.orderIds, "order_id")))

\* a fork that would take every Error for capability absence (not the code's)
FallBackOnAnyError(e) == IsError(e)

\* rmaError instanceof MagentoApiError && (statusCode === 404 || statusCode === 403)
GetReturnsShouldFallBack(e) ==
  IsMagentoApiError(e) /\ (e.statusCode = 404 \/ e.statusCode = 403)

GetReturnsOuterCatch(r, e) == Finish(r, CatchGuarded("get-returns", e))

getCreditMemoReturns(r) ==
  Await(r, "GET", CreditMemosEndpoint, CreditMemoCriteria(r.input), "creditmemos")

GetReturnsInnerCatch(r, e) ==
  IF GetReturnsShouldFallBack(e) THEN getCreditMemoReturns(r) ELSE GetReturnsOuterCatch(r, e)

\* async (params) => { try { try { return await getRmaReturns(...) ...
GetReturnsInvoke(i) ==
  /\ inv[i].pc = "idle"
  /\ \E params \in GetReturnsParams :
       inv' = [inv EXCEPT ![i] =
                 Await(New("get-returns", params), "GET", ReturnsEndpoint, RmaCriteria(params), "returns")]
  /\ UNCHANGED world

\* getRmaReturns resumes after client.get("returns", criteria)
GetReturnsRmaResponse(i) ==
  /\ inv[i].tool = "get-returns" /\ inv[i].pc = "returns"
  /\ \E o \in Outcomes("GET", ReturnsEndpoint, ListBodies(Rmas)) :
       LET r == Receive(inv[i], o)
       IN inv' = [inv EXCEPT ![i] =
                    IF o.ok
                    THEN IF o.body.wellFormed
                         THEN Finish(r, successResult(
                                [returns |-> [k \in DOMAIN o.body.items |-> mapRmaToOnx(o.body.items[k])]]))
                         ELSE GetReturnsInnerCatch(r, TranslationTypeError)
                    ELSE GetReturnsInnerCatch(r, o.thrown)]
  /\ UNCHANGED world

\* getCreditMemoReturns resumes after client.get("creditmemos", criteria)
GetReturnsCreditMemoResponse(i) ==
  /\ inv[i].tool = "get-returns" /\ inv[i].pc = "creditmemos"
  /\ \E o \in PlainOutcomes("GET", CreditMemosEndpoint, ListBodies(CreditMemos)) :
       LET r == Receive(inv[i], o)
       IN inv' = [inv EXCEPT ![i] =
                    IF o.ok
                    THEN IF o.body.wellFormed
                         THEN Finish(r, successResult(
                                [returns |-> [k \in DOMAIN o.body.items |-> mapCreditMemoToOnx(o.body.items[k])]]))
                         ELSE GetReturnsOuterCatch(r, TranslationTypeError)
                    ELSE GetReturnsOuterCatch(r, o.thrown)]
  /\ UNCHANGED world

-----------------------------------------------------------------------------
(* create-return *)

\* a line item of the input, with or without its optional inspection
ReturnLineItem(inspected) ==
  [orderLineItemId |-> <<"1">>, sku |-> <<"A">>, quantityReturned |-> 1,
   returnReason |-> <<"damaged">>]
  @@ (IF inspected THEN [inspection |-> [conditionCategory |-> <<"opened">>]] ELSE NoFields)

\* the caller names the order, the outcome and the items returned, and may add
\* custom fields and a restocking fee; the other optional fields are not given
CreateReturnParams ==
  {[orderId |-> oid, outcome |-> "refund", customFields |-> cf,
    returnLineItems |-> <<ReturnLineItem(inspected)>>,
    returnTotal |-> NoNumber, refundAmount |-> NoNumber, refundMethod |-> Absent,
    refundStatus |-> Absent, shippingRefundAmount |-> NoNumber,
    returnShippingFees |-> NoNumber, restockingFee |-> fee] :
     oid \in world.orderIds, cf \in {NoList, {<<CustomField(<<"channel">>, <<"web">>)>>}},
     inspected \in world.inspections, fee \in world.fees}

RefundEndpoint(ret) == <<"order/", ret.orderId, "/refund">>

\* POST returns resolves with the created RMA, or with a body the mapper cannot read
RmaCreatedBodies == {[wellFormed |-> TRUE, entity_id |-> 21], NullBody}
\* POST order/{id}/refund resolves with the credit memo id, the credit memo, or null
RefundBodies ==
  {[wellFormed |-> TRUE, isObject |-> FALSE, entity_id |-> 31],
   [wellFormed |-> TRUE, isObject |-> TRUE, entity_id |-> 32], NullBody}

\* list || []
OrEmpty(list) == IF list = NoList THEN <<>> ELSE CHOOSE x \in list : TRUE

\* the Return as serialised: a key whose value is undefined is not there
mapRmaToOnxReturn(rma, input) ==
  [id |-> NumberToText(rma.entity_id), orderId |-> input.orderId,
   status |-> "requested", outcome |-> input.outcome,
   returnLineItems |-> input.returnLineItems,
   refundStatus |-> IF TruthyText(input.refundStatus) THEN input.refundStatus ELSE <<"pending">>,
   shippingRefundAmount |-> OrZero(input.shippingRefundAmount),
   returnShippingFees |-> OrZero(input.returnShippingFees),
   restockingFee |-> OrZero(input.restockingFee),
   customFields |-> OrEmpty(input.customFields)
      \o <<CustomField(NsName(":return_type"), <<"rma">>),
           CustomField(NsName(":rma_entity_id"), NumberToText(rma.entity_id))>>]
  @@ (IF input.returnTotal # NoNumber THEN [returnTotal |-> NumberOf(input.returnTotal)] ELSE NoFields)
  @@ (IF input.refundAmount # NoNumber THEN [refundAmount |-> NumberOf(input.refundAmount)] ELSE NoFields)
  @@ (IF input.refundMethod # Absent THEN [refundMethod |-> input.refundMethod] ELSE NoFields)

CreditMemoReturn(creditmemo, ret) ==
  [id |-> NumberToText(creditmemo.entity_id), orderId |-> ret.orderId,
   status |-> "refunded", outcome |-> ret.outcome,
   returnLineItems |-> ret.returnLineItems,
   refundMethod |-> <<"original_payment">>, refundStatus |-> <<"refunded">>,
   shippingRefundAmount |-> OrZero(ret.shippingRefundAmount),
   returnShippingFees |-> OrZero(ret.returnShippingFees),
   restockingFee |-> OrZero(ret.restockingFee),
   customFields |-> OrEmpty(ret.customFields)
      \o <<CustomField(NsName(":return_type"), <<"credit_memo">>)>>]
  @@ (IF ret.refundAmount # NoNumber THEN [refundAmount |-> NumberOf(ret.refundAmount)] ELSE NoFields)

\* rmaError.message?.includes("404") || rmaError.message?.includes("403")
\* (called only with a value whose .message can be read)
CreateReturnShouldFallBack(e) ==
  IsError(e) /\ (Includes(e.message, <<"4", "0", "4">>) \/ Includes(e.message, <<"4", "0", "3">>))

CreateReturnOuterCatch(r, e) == Finish(r, CatchAny("create-return", e))

CreateReturnInnerCatch(r, e) ==
  IF e.kind = "nullish"
  THEN CreateReturnOuterCatch(r, Thrown("Error", "TypeError", 0, <<"Cannot read properties of undefined">>))
  ELSE IF CreateReturnShouldFallBack(e)
       THEN Await(r, "POST", RefundEndpoint(r.input), NoArg, "refund")
       ELSE CreateReturnOuterCatch(r, e)

CreateReturnInvoke(i) ==
  /\ inv[i].pc = "idle"
  /\ \E ret \in CreateReturnParams :
       inv' = [inv EXCEPT ![i] = Await(New("create-return", ret), "POST", ReturnsEndpoint, NoArg, "returns")]
  /\ UNCHANGED world

CreateReturnRmaResponse(i) ==
  /\ inv[i].tool = "create-return" /\ inv[i].pc = "returns"
  /\ \E o \in Outcomes("POST", ReturnsEndpoint, RmaCreatedBodies) :
       LET r == Receive(inv[i], o)
       IN inv' = [inv EXCEPT ![i] =
                    IF o.ok
                    THEN IF o.body.wellFormed
                         THEN Finish(r, successResult([return |-> mapRmaToOnxReturn(o.body, r.input)]))
                         ELSE CreateReturnInnerCatch(r, TranslationTypeError)
                    ELSE CreateReturnInnerCatch(r, o.thrown)]
  /\ UNCHANGED world

CreateReturnRefundResponse(i) ==
  /\ inv[i].tool = "create-return" /\ inv[i].pc = "refund"
  /\ \E o \in PlainOutcomes("POST", RefundEndpoint(inv[i].input), RefundBodies) :
       LET r == Receive(inv[i], o)
       IN inv' = [inv EXCEPT ![i] =
                    IF o.ok
                    THEN IF o.body.wellFormed
                         THEN Finish(r, successResult([return |-> CreditMemoReturn(o.body, r.input)]))
                         ELSE CreateReturnOuterCatch(r, TranslationTypeError)
                    ELSE CreateReturnOuterCatch(r, o.thrown)]
  /\ UNCHANGED world

-----------------------------------------------------------------------------
(* Handlers with one search call: get-orders, get-customers, get-fulfillments *)

\* what the handler's try block raised: the rejection of the awaited call, or
\* the TypeError of reading a body that is null
Raised(o) == IF o.ok THEN TranslationTypeError ELSE o.thrown

Translates(o) == o.ok /\ o.body.wellFormed

EntityBodies(entity) == {[wellFormed |-> TRUE, entity |-> entity], NullBody}

\* an optional list of up to MaxIds ids: undefined, empty, or 1..MaxIds values
IdPool == <<"1", "2", "3", "4">>
IdLists == {Absent} \cup {[k \in 1..n |-> IdPool[k]] : n \in 0..MaxIds}

QueryParams == {[ids |-> ids, paging |-> pg] : ids \in IdLists, pg \in world.pagings}

QueryCriteria(params, field) ==
  buildSearchCriteria(WithExtra(params.paging, IfList(params.ids, field)))

-----------------------------------------------------------------------------
(* resolveSelectedOptions: a child's selected options from the parent's options *)

\* String.prototype.toLowerCase, on the letters the labels use
LowerChar(c) ==
  CASE c = "C" -> "c" [] c = "S" -> "s" [] c = "Z" -> "z" [] OTHER -> c

toLowerCase(text) == [k \in DOMAIN text |-> LowerChar(text[k])]

\* the characters \s matches
IsWhitespace(c) == c \in {" ", "\t", "\n"}

\* text.replace(/\s+/g, "_"): each run of whitespace becomes one underscore
RECURSIVE ReplaceWhitespace(_)
ReplaceWhitespace(text) ==
  IF text = <<>> THEN <<>>
  ELSE IF ~IsWhitespace(Head(text)) THEN <<Head(text)>> \o ReplaceWhitespace(Tail(text))
  ELSE IF Len(text) >= 2 /\ IsWhitespace(text[2]) THEN ReplaceWhitespace(Tail(text))
  ELSE <<"_">> \o ReplaceWhitespace(Tail(text))

\* a stored attribute value: text, or a number
TextValue(text) == [isNumber |-> FALSE, text |-> text]
NumberValue(n) == [isNumber |-> TRUE, n |-> n]

CustomAttribute(attribute_code, value) == [attribute_code |-> attribute_code, value |-> value]

\* a configurable option of a parent product; values is the optional list of
\* its value_index tokens
ConfigurableOption(attribute_id, label, attribute_code, values) ==
  [attribute_id |-> attribute_id, label |-> label, attribute_code |-> attribute_code,
   values |-> values]

Color == <<"C", "o", "l", "o", "r">>
ColorOption == ConfigurableOption(93, Color, <<"c", "o", "l", "o", "r">>, {<<1, 2>>})
ColorAttribute == CustomAttribute(<<"c", "o", "l", "o", "r">>, TextValue(<<"4", "2">>))

\* String(value)
StringOf(value) == IF value.isNumber THEN NumberToText(value.n) ELSE value.text

\* a label map that knows no option (not the code's)
NoLabels(configOptions) == [a \in {} |-> <<>>]

\* attribute_id -> label; a later option with the same attribute_id replaces
\* an earlier one (the value maps are built and never read by the resolver)
buildOptionLabelMap(configOptions) ==
  [a \in {configOptions[k].attribute_id : k \in DOMAIN configOptions} |->
     LET last == CHOOSE k \in DOMAIN configOptions :
                   /\ configOptions[k].attribute_id = a
                   /\ \A h \in DOMAIN configOptions : configOptions[h].attribute_id = a => h <= k
     IN configOptions[last].label]

\* a key derived from the label even when a code is given (not the code's)
LabelKey(opt) == ReplaceWhitespace(toLowerCase(opt.label))

\* opt.attribute_code || opt.label?.toLowerCase().replace(/\s+/g, "_")
AttrCode(opt) ==
  IF TruthyText(opt.attribute_code) THEN opt.attribute_code
  ELSE ReplaceWhitespace(toLowerCase(opt.label))

\* customAttrs.find(a => a.attribute_code === attrCode): the first match, if any
FindAttr(customAttrs, attrCode) ==
  LET matches == {a \in DOMAIN customAttrs : customAttrs[a].attribute_code = attrCode}
  IN IF matches = {} THEN {}
     ELSE {customAttrs[CHOOSE a \in matches : \A b \in matches : a <= b]}

\* the loop over configOptions from option k on
RECURSIVE ResolveFrom(_, _, _, _)
ResolveFrom(customAttrs, configOptions, optionLabelMap, k) ==
  IF k > Len(configOptions) THEN <<>>
  ELSE LET opt == configOptions[k]
           childAttr == FindAttr(customAttrs, AttrCode(opt))
           rest == ResolveFrom(customAttrs, configOptions, optionLabelMap, k + 1)
       IN IF opt.attribute_id \notin DOMAIN optionLabelMap \/ childAttr = {} THEN rest
          ELSE <<[name |-> optionLabelMap[opt.attribute_id],
                  value |-> StringOf((CHOOSE a \in childAttr : TRUE).value)]>> \o rest

resolveSelectedOptions(child, configOptions, optionLabelMap) ==
  ResolveFrom(OrEmpty(child.custom_attributes), configOptions, optionLabelMap, 1)

-----------------------------------------------------------------------------
(* Native entities and their translation *)

\* a native order item; amounts are counted in cents
OrderItem(item_id, product_type, discount_amount) ==
  [item_id |-> item_id, sku |-> <<"A">>, product_type |-> product_type,
   discount_amount |-> discount_amount]

\* a native address: street is an optional list of lines, city is optional
M2Address(street, city) == [street |-> street, city |-> city]
NoAddress == {}

\* each order holds a configurable parent and its simple child, with the
\* order's discount stored negative; the first order alone has a billing
\* address, an external id, a shipping method and a shipping assignment
M2Orders ==
  [k \in 1..MaxItems |->
     [entity_id |-> 100 + k,
      items |-> <<OrderItem(1, <<"configurable">>, NoNumber), OrderItem(2, <<"simple">>, {200})>>,
      discount_amount |-> {0 - 1250},
      ext_order_id |-> IF k = 1 THEN <<"E1">> ELSE Absent,
      billing_address |-> IF k = 1 THEN {M2Address({<<<<"1 Main St">>>>}, <<"Paris">>)} ELSE NoAddress,
      shipping_method |-> IF k = 1 THEN <<"flatrate">> ELSE Absent,
      shipping_address |-> IF k = 1 THEN {M2Address(NoList, Absent)} ELSE NoAddress]]
M2Customers == [k \in 1..MaxItems |-> [id |-> 200 + k]]
M2Shipments == [k \in 1..MaxItems |-> [entity_id |-> 300 + k, order_id |-> 7]]
\* the first product declares the Color option; the others declare none
M2Products ==
  [k \in 1..MaxItems |->
     [id |-> 400 + k, sku |-> "CFG", status |-> k,
      configurable_product_options |-> IF k = 1 THEN {<<ColorOption>>} ELSE NoList]]

\* a test that keeps every item (not the code's)
KeepAll(item) == TRUE

\* item.product_type !== "configurable"
NotConfigurable(item) == item.product_type # <<"configurable">>

\* t || ""
OrEmptyText(t) == IF TruthyText(t) THEN t ELSE <<>>

\* addr.street?.[k]
StreetLine(addr, k) ==
  IF addr.street # NoList /\ k <= Len(OrEmpty(addr.street)) THEN OrEmpty(addr.street)[k] ELSE Absent

\* the address as serialised: a key whose value is undefined is not there
mapM2Address(addr) ==
  [address1 |-> OrEmptyText(StreetLine(addr, 1)), address2 |-> OrEmptyText(StreetLine(addr, 2))]
  @@ (IF addr.city # Absent THEN [city |-> addr.city] ELSE NoFields)

\* order.extension_attributes?.shipping_assignments?.[0]?.shipping?.address,
\* mapped when there is one
extractShippingAddress(order) ==
  IF order.shipping_address # NoAddress
  THEN [shippingAddress |-> mapM2Address(CHOOSE a \in order.shipping_address : TRUE)]
  ELSE NoFields

\* the Order as serialised: a key whose value is undefined is not there
mapM2OrderToOnx(m2Order) ==
  LET kept == SelectSeq(m2Order.items, NotConfigurable)
  IN (IF TruthyText(m2Order.ext_order_id) THEN [externalId |-> m2Order.ext_order_id] ELSE NoFields)
     @@ (IF m2Order.billing_address # NoAddress
         THEN [billingAddress |-> mapM2Address(CHOOSE a \in m2Order.billing_address : TRUE)]
         ELSE NoFields)
     @@ extractShippingAddress(m2Order)
     @@
     [id |-> NumberToText(m2Order.entity_id),
      shippingCode |-> OrEmptyText(m2Order.shipping_method),
      lineItems |->
        [k \in DOMAIN kept |->
           [id |-> NumberToText(kept[k].item_id), sku |-> kept[k].sku,
            unitDiscount |-> OrZero(kept[k].discount_amount),
            customFields |->
              <<CustomField(NsName(":product_type"),
                            IF TruthyText(kept[k].product_type)
                            THEN kept[k].product_type ELSE <<"simple">>)>>]],
      orderDiscount |-> MathAbs(OrZero(m2Order.discount_amount))]
mapM2CustomerToOnx(customer) == [id |-> NumberToText(customer.id)]
mapShipmentToOnxFulfillment(s) ==
  [id |-> NumberToText(s.entity_id), orderId |-> NumberToText(s.order_id)]
\* the options as mapped, with nothing put in place of an empty list (not the code's)
OptionsAsMapped(options) == options

\* options.length > 0 ? options : [{ name: "Default", values: [] }]
OptionsOrDefault(options) ==
  IF Len(options) > 0 THEN options ELSE <<[name |-> <<"Default">>, values |-> <<>>]>>

mapM2ProductToOnx(product) ==
  LET configOptions == OrEmpty(product.configurable_product_options)
      options == [k \in DOMAIN configOptions |->
                    [name |-> configOptions[k].label,
                     values |-> [v \in DOMAIN OrEmpty(configOptions[k].values) |->
                                   NumberToText(OrEmpty(configOptions[k].values)[v])]]]
  IN [id |-> NumberToText(product.id), externalId |-> product.sku,
      externalProductId |-> product.sku,
      status |-> IF product.status = 1 THEN "active" ELSE "inactive",
      options |-> OptionsOrDefault(options)]

GetOrdersInvoke(i) ==
  /\ inv[i].pc = "idle"
  /\ \E params \in QueryParams :
       inv' = [inv EXCEPT ![i] =
                 Await(New("get-orders", params), "GET", <<"orders">>,
                       QueryCriteria(params, "entity_id"), "orders")]
  /\ UNCHANGED world

GetOrdersResponse(i) ==
  /\ inv[i].tool = "get-orders" /\ inv[i].pc = "orders"
  /\ \E o \in PlainOutcomes("GET", <<"orders">>, ListBodies(M2Orders)) :
       LET r == Receive(inv[i], o)
       IN inv' = [inv EXCEPT ![i] =
                    IF Translates(o)
                    THEN Finish(r, successResult([orders |-> [k \in DOMAIN o.body.items |-> mapM2OrderToOnx(o.body.items[k])]]))
                    ELSE Finish(r, CatchGuarded("get-orders", Raised(o)))]
  /\ UNCHANGED world

GetCustomersInvoke(i) ==
  /\ inv[i].pc = "idle"
  /\ \E params \in QueryParams :
       inv' = [inv EXCEPT ![i] =
                 Await(New("get-customers", params), "GET", <<"customers/search">>,
                       QueryCriteria(params, "entity_id"), "customers")]
  /\ UNCHANGED world

GetCustomersResponse(i) ==
  /\ inv[i].tool = "get-customers" /\ inv[i].pc = "customers"
  /\ \E o \in PlainOutcomes("GET", <<"customers/search">>, ListBodies(M2Customers)) :
       LET r == Receive(inv[i], o)
       IN inv' = [inv EXCEPT ![i] =
                    IF Translates(o)
                    THEN Finish(r, successResult([customers |-> [k \in DOMAIN o.body.items |-> mapM2CustomerToOnx(o.body.items[k])]]))
                    ELSE Finish(r, CatchGuarded("get-customers", Raised(o)))]
  /\ UNCHANGED world

GetFulfillmentsInvoke(i) ==
  /\ inv[i].pc = "idle"
  /\ \E params \in QueryParams :
       inv' = [inv EXCEPT ![i] =
                 Await(New("get-fulfillments", params), "GET", <<"shipments">>,
                       QueryCriteria(params, "entity_id"), "shipments")]
  /\ UNCHANGED world

GetFulfillmentsResponse(i) ==
  /\ inv[i].tool = "get-fulfillments" /\ inv[i].pc = "shipments"
  /\ \E o \in PlainOutcomes("GET", <<"shipments">>, ListBodies(M2Shipments)) :
       LET r == Receive(inv[i], o)
       IN inv' = [inv EXCEPT ![i] =
                    IF Translates(o)
                    THEN Finish(r, successResult(
                           [fulfillments |-> [k \in DOMAIN o.body.items |-> mapShipmentToOnxFulfillment(o.body.items[k])]]))
                    ELSE Finish(r, CatchAny("get-fulfillments", Raised(o)))]
  /\ UNCHANGED world

-----------------------------------------------------------------------------
(* get-products *)

\* encodeURIComponent of a SKU: "/" is the one reserved character SKUs are drawn with
encodeURIComponent(sku) == IF sku = "a/b" THEN "a%2Fb" ELSE sku

GetProductsParams ==
  {[ids |-> Absent, skus |-> skus, paging |-> pg] :
     skus \in {Absent, <<>>, <<"a/b">>, <<"A", "B">>}, pg \in world.pagings}

ProductsCriteria(params) ==
  buildSearchCriteria(WithExtra(params.paging,
    IfList(params.ids, "entity_id") \o IfList(params.skus, "sku")))

ProductEndpoint(sku) == <<"products/", encodeURIComponent(sku)>>

GetProductsInvoke(i) ==
  /\ inv[i].pc = "idle"
  /\ \E params \in GetProductsParams :
       inv' = [inv EXCEPT ![i] =
                 IF params.skus # Absent /\ Len(params.skus) = 1
                 THEN Await(New("get-products", params), "GET", ProductEndpoint(params.skus[1]),
                            NoArg, "product")
                 ELSE Await(New("get-products", params), "GET", <<"products">>,
                            ProductsCriteria(params), "products")]
  /\ UNCHANGED world

GetProductsSingleResponse(i) ==
  /\ inv[i].tool = "get-products" /\ inv[i].pc = "product"
  /\ \E o \in PlainOutcomes("GET", ProductEndpoint(inv[i].input.skus[1]), EntityBodies(M2Products[1])) :
       LET r == Receive(inv[i], o)
       IN inv' = [inv EXCEPT ![i] =
                    IF Translates(o)
                    THEN Finish(r, successResult([products |-> <<mapM2ProductToOnx(o.body.entity)>>]))
                    ELSE Finish(r, CatchAny("get-products", Raised(o)))]
  /\ UNCHANGED world

GetProductsSearchResponse(i) ==
  /\ inv[i].tool = "get-products" /\ inv[i].pc = "products"
  /\ \E o \in PlainOutcomes("GET", <<"products">>, ListBodies(M2Products)) :
       LET r == Receive(inv[i], o)
       IN inv' = [inv EXCEPT ![i] =
                    IF Translates(o)
                    THEN Finish(r, successResult([products |-> [k \in DOMAIN o.body.items |-> mapM2ProductToOnx(o.body.items[k])]]))
                    ELSE Finish(r, CatchAny("get-products", Raised(o)))]
  /\ UNCHANGED world

-----------------------------------------------------------------------------
(* fulfill-order *)

FulfillOrderParams == {[orderId |-> "7", trackingNumbers |-> t] : t \in {<<>>, <<"1Z">>}}

ShipEndpoint(params) == <<"order/", params.orderId, "/ship">>
ShipmentEndpoint(shipmentId) == <<"shipments/">> \o NumberToText(shipmentId)

FulfillOrderInvoke(i) ==
  /\ inv[i].pc = "idle"
  /\ \E params \in FulfillOrderParams :
       inv' = [inv EXCEPT ![i] =
                 Await(New("fulfill-order", params), "POST", ShipEndpoint(params), NoArg, "ship")]
  /\ UNCHANGED world

FulfillOrderShipResponse(i) ==
  /\ inv[i].tool = "fulfill-order" /\ inv[i].pc = "ship"
  /\ \E o \in PlainOutcomes("POST", ShipEndpoint(inv[i].input), {[wellFormed |-> TRUE, shipmentId |-> 301]}) :
       LET r == Receive(inv[i], o)
       IN inv' = [inv EXCEPT ![i] =
                    IF o.ok
                    THEN Await(SetLoc(r, [shipmentId |-> o.body.shipmentId]), "GET",
                               ShipmentEndpoint(o.body.shipmentId), NoArg, "shipment")
                    ELSE Finish(r, CatchAny("fulfill-order", o.thrown))]
  /\ UNCHANGED world

FulfillOrderShipmentResponse(i) ==
  /\ inv[i].tool = "fulfill-order" /\ inv[i].pc = "shipment"
  /\ \E o \in PlainOutcomes("GET", ShipmentEndpoint(inv[i].loc.shipmentId), EntityBodies(M2Shipments[1])) :
       LET r == Receive(inv[i], o)
       IN inv' = [inv EXCEPT ![i] =
                    IF Translates(o)
                    THEN Finish(r, successResult(
                           [fulfillment |-> [id |-> NumberToText(o.body.entity.entity_id),
                                             orderId |-> r.input.orderId, status |-> "shipped"]]))
                    ELSE Finish(r, CatchAny("fulfill-order", Raised(o)))]
  /\ UNCHANGED world

-----------------------------------------------------------------------------
(* cancel-order *)

CancelOrderParams == {[orderId |-> "7", reason |-> rs, notes |-> Absent] : rs \in {Absent, <<"duplicate">>}}

OrderEndpoint(orderId) == <<"orders/", orderId>>
CancelEndpoint(params) == <<"orders/", params.orderId, "/cancel">>
CommentsEndpoint(orderId) == <<"orders/">> \o orderId \o <<"/comments">>

CancelFetchOrder(r) == Await(r, "GET", OrderEndpoint(r.input.orderId), NoArg, "order")

CancelOrderInvoke(i) ==
  /\ inv[i].pc = "idle"
  /\ \E params \in CancelOrderParams :
       inv' = [inv EXCEPT ![i] =
                 Await(New("cancel-order", params), "POST", CancelEndpoint(params), NoArg, "cancel")]
  /\ UNCHANGED world

\* POST orders/{id}/cancel answers true or false
CancelOrderCancelResponse(i) ==
  /\ inv[i].tool = "cancel-order" /\ inv[i].pc = "cancel"
  /\ \E o \in PlainOutcomes("POST", CancelEndpoint(inv[i].input),
                            {[wellFormed |-> TRUE, success |-> b] : b \in BOOLEAN}) :
       LET r == Receive(inv[i], o)
       IN inv' = [inv EXCEPT ![i] =
                    IF ~o.ok THEN Finish(r, CatchGuarded("cancel-order", o.thrown))
                    ELSE IF ~o.body.success
                    THEN Finish(r, errorResult(<<"Order ", r.input.orderId,
                                            " could not be cancelled. It may be shipped, completed, or in a non-cancellable state.">>))
                    ELSE IF TruthyText(r.input.reason) \/ TruthyText(r.input.notes)
                    THEN Await(r, "POST", CommentsEndpoint(<<r.input.orderId>>), NoArg, "comment")
                    ELSE CancelFetchOrder(r)]
  /\ UNCHANGED world

CancelOrderCommentResponse(i) ==
  /\ inv[i].tool = "cancel-order" /\ inv[i].pc = "comment"
  /\ \E o \in PlainOutcomes("POST", CommentsEndpoint(<<inv[i].input.orderId>>), {[wellFormed |-> TRUE]}) :
       LET r == Receive(inv[i], o)
       IN inv' = [inv EXCEPT ![i] =
                    IF o.ok THEN CancelFetchOrder(r)
                    ELSE Finish(r, CatchGuarded("cancel-order", o.thrown))]
  /\ UNCHANGED world

CancelOrderOrderResponse(i) ==
  /\ inv[i].tool = "cancel-order" /\ inv[i].pc = "order"
  /\ \E o \in PlainOutcomes("GET", OrderEndpoint(inv[i].input.orderId), EntityBodies(M2Orders[1])) :
       LET r == Receive(inv[i], o)
       IN inv' = [inv EXCEPT ![i] =
                    IF Translates(o)
                    THEN Finish(r, successResult([order |-> mapM2OrderToOnx(o.body.entity)]))
                    ELSE Finish(r, CatchGuarded("cancel-order", Raised(o)))]
  /\ UNCHANGED world

-----------------------------------------------------------------------------
(* create-sales-order (admin POST /orders) *)

\* line item k orders k units at 10.00; the first names no total of its own
OrderLineItems ==
  [k \in 1..MaxItems |->
     [sku |-> <<"A">>, quantity |-> k, unitPrice |-> {1000},
      totalPrice |-> IF k = 1 THEN NoNumber ELSE {1500}]]

CreateSalesOrderParams ==
  {[orderNote |-> n, lineItems |-> OrderLineItems, orderDiscount |-> d, totalPrice |-> t,
    subTotalPrice |-> st, shippingPrice |-> sh, orderTax |-> tx] :
     n \in {Absent, <<"gift">>}, d \in {NoNumber, {0}, {1250}, {0 - 1250}},
     t \in {NoNumber, {9000}}, st \in {NoNumber, {4000}}, sh \in {NoNumber, {500}},
     tx \in {NoNumber, {300}}}

\* n ?? fallback
OrElse(n, fallback) == IF n = NoNumber THEN fallback ELSE NumberOf(n)

\* item.totalPrice ?? (item.unitPrice || 0) * item.quantity
RowTotal(item) == OrElse(item.totalPrice, OrZero(item.unitPrice) * item.quantity)

\* m2Items.reduce((sum, i) => sum + i.row_total, 0), over the first k items
RECURSIVE SumRowTotals(_, _)
SumRowTotals(lineItems, k) ==
  IF k = 0 THEN 0 ELSE SumRowTotals(lineItems, k - 1) + RowTotal(lineItems[k])

\* the amounts of the entity posted to /orders
OrderEntity(order) ==
  LET subtotal == OrElse(order.subTotalPrice, SumRowTotals(order.lineItems, Len(order.lineItems)))
      shippingAmount == OrZero(order.shippingPrice)
      discount == OrZero(order.orderDiscount)
      tax == OrZero(order.orderTax)
      grandTotal == OrElse(order.totalPrice, subtotal + shippingAmount + tax - discount)
  IN [items |-> [k \in DOMAIN order.lineItems |->
                   [sku |-> order.lineItems[k].sku, qty_ordered |-> order.lineItems[k].quantity,
                    row_total |-> RowTotal(order.lineItems[k])]],
      subtotal |-> subtotal, grand_total |-> grandTotal,
      shipping_amount |-> shippingAmount, tax_amount |-> tax,
      discount_amount |-> IF discount > 0 THEN 0 - discount ELSE 0]

CreateSalesOrderInvoke(i) ==
  /\ inv[i].pc = "idle"
  /\ \E order \in CreateSalesOrderParams :
       inv' = [inv EXCEPT ![i] =
                 Await(New("create-sales-order", order), "POST", <<"orders">>,
                       [entity |-> OrderEntity(order)], "orders")]
  /\ UNCHANGED world

CreateSalesOrderOrderResponse(i) ==
  /\ inv[i].tool = "create-sales-order" /\ inv[i].pc = "orders"
  /\ \E o \in PlainOutcomes("POST", <<"orders">>, EntityBodies(M2Orders[1])) :
       LET r == Receive(inv[i], o)
       IN inv' = [inv EXCEPT ![i] =
                    IF ~Translates(o) THEN Finish(r, CatchGuarded("create-sales-order", Raised(o)))
                    ELSE IF TruthyText(r.input.orderNote)
                    THEN Await(SetLoc(r, [m2Order |-> o.body.entity]), "POST",
                               CommentsEndpoint(NumberToText(o.body.entity.entity_id)), NoArg, "comment")
                    ELSE Finish(r, successResult([order |-> mapM2OrderToOnx(o.body.entity)]))]
  /\ UNCHANGED world

CreateSalesOrderCommentResponse(i) ==
  /\ inv[i].tool = "create-sales-order" /\ inv[i].pc = "comment"
  /\ \E o \in PlainOutcomes("POST", inv[i].calls[2].endpoint, {[wellFormed |-> TRUE]}) :
       LET r == Receive(inv[i], o)
       IN inv' = [inv EXCEPT ![i] =
                    IF o.ok THEN Finish(r, successResult([order |-> mapM2OrderToOnx(r.loc.m2Order)]))
                    ELSE Finish(r, CatchGuarded("create-sales-order", o.thrown))]
  /\ UNCHANGED world

-----------------------------------------------------------------------------
(* update-order: hold/unhold, comment, billing address, then the final read *)

UpdateOrderParams ==
  {[id |-> "7", status |-> st, orderNote |-> n, billingAddress |-> b] :
     st \in {Absent, <<"on_hold">>, <<"holded">>, <<"unhold">>, <<"complete">>},
     n \in {Absent, <<>>, <<"note">>}, b \in BOOLEAN}

UpdateFinalRead(r) == Await(r, "GET", OrderEndpoint(r.input.id), NoArg, "final")

UpdateFromBilling(r) ==
  IF r.input.billingAddress
  THEN Await(r, "GET", OrderEndpoint(r.input.id), NoArg, "billing-get")
  ELSE UpdateFinalRead(r)

\* the order note left unposted (not the code's)
UpdateWithoutNote(r) == UpdateFromBilling(r)

UpdateFromNote(r) ==
  IF TruthyText(r.input.orderNote)
  THEN Await(r, "POST", CommentsEndpoint(<<r.input.id>>), NoArg, "comment")
  ELSE UpdateFromBilling(r)

UpdateFromStatus(r) ==
  IF r.input.status \in {<<"holded">>, <<"on_hold">>}
  THEN Await(r, "POST", <<"orders/", r.input.id, "/hold">>, NoArg, "status")
  ELSE IF r.input.status = <<"unhold">>
  THEN Await(r, "POST", <<"orders/", r.input.id, "/unhold">>, NoArg, "status")
  ELSE UpdateFromNote(r)

UpdateOrderInvoke(i) ==
  /\ inv[i].pc = "idle"
  /\ \E params \in UpdateOrderParams :
       inv' = [inv EXCEPT ![i] = UpdateFromStatus(New("update-order", params))]
  /\ UNCHANGED world

UpdateOrderStatusResponse(i) ==
  /\ inv[i].tool = "update-order" /\ inv[i].pc = "status"
  /\ \E o \in PlainOutcomes("POST", inv[i].calls[Len(inv[i].calls)].endpoint, {[wellFormed |-> TRUE]}) :
       LET r == Receive(inv[i], o)
       IN inv' = [inv EXCEPT ![i] =
                    IF o.ok THEN UpdateFromNote(r) ELSE Finish(r, CatchAny("update-order", o.thrown))]
  /\ UNCHANGED world

UpdateOrderCommentResponse(i) ==
  /\ inv[i].tool = "update-order" /\ inv[i].pc = "comment"
  /\ \E o \in PlainOutcomes("POST", CommentsEndpoint(<<inv[i].input.id>>), {[wellFormed |-> TRUE]}) :
       LET r == Receive(inv[i], o)
       IN inv' = [inv EXCEPT ![i] =
                    IF o.ok THEN UpdateFromBilling(r) ELSE Finish(r, CatchAny("update-order", o.thrown))]
  /\ UNCHANGED world

\* the billing address is written only when the order read back has one
UpdateOrderBillingGetResponse(i) ==
  /\ inv[i].tool = "update-order" /\ inv[i].pc = "billing-get"
  /\ \E o \in PlainOutcomes("GET", OrderEndpoint(inv[i].input.id),
                            EntityBodies(M2Orders[1]) \cup EntityBodies(M2Orders[MaxItems])) :
       LET r == Receive(inv[i], o)
       IN inv' = [inv EXCEPT ![i] =
                    IF ~Translates(o) THEN Finish(r, CatchAny("update-order", Raised(o)))
                    ELSE IF o.body.entity.billing_address # NoAddress
                    THEN Await(r, "PUT", OrderEndpoint(r.input.id), NoArg, "billing-put")
                    ELSE UpdateFinalRead(r)]
  /\ UNCHANGED world

UpdateOrderBillingPutResponse(i) ==
  /\ inv[i].tool = "update-order" /\ inv[i].pc = "billing-put"
  /\ \E o \in PlainOutcomes("PUT", OrderEndpoint(inv[i].input.id), {[wellFormed |-> TRUE]}) :
       LET r == Receive(inv[i], o)
       IN inv' = [inv EXCEPT ![i] =
                    IF o.ok THEN UpdateFinalRead(r) ELSE Finish(r, CatchAny("update-order", o.thrown))]
  /\ UNCHANGED world

UpdateOrderFinalResponse(i) ==
  /\ inv[i].tool = "update-order" /\ inv[i].pc = "final"
  /\ \E o \in PlainOutcomes("GET", OrderEndpoint(inv[i].input.id), EntityBodies(M2Orders[1])) :
       LET r == Receive(inv[i], o)
       IN inv' = [inv EXCEPT ![i] =
                    IF Translates(o)
                    THEN Finish(r, successResult([order |-> mapM2OrderToOnx(o.body.entity)]))
                    ELSE Finish(r, CatchAny("update-order", Raised(o)))]
  /\ UNCHANGED world

-----------------------------------------------------------------------------
(* get-inventory: MSI source items per SKU, legacy stock items as fallback *)

SkuPool == <<"A", "a/b", "C", "D">>
SkuLists == {[k \in 1..n |-> SkuPool[k]] : n \in 0..MaxIds}

GetInventoryParams ==
  {[skus |-> skus, locationIds |-> l] :
     skus \in SkuLists, l \in {Absent, <<>>, <<"wh1">>, <<"wh1", "wh2">>}}

\* a handler without the empty-list guard (not the code's)
NeverMissing(skus) == FALSE

\* params.skus.length === 0
SkusMissing(skus) == Len(skus) = 0

SourceItemsEndpoint == <<"inventory/source-items">>
StockItemEndpoint(sku) == <<"stockItems/", encodeURIComponent(sku)>>

MsiFilters(sku, locationIds) ==
  [filterGroups |-> <<Group(Filter("sku", <<sku>>, "eq"))>>
     \o (IF HasLength(locationIds)
         THEN <<Group(Filter("source_code", JoinComma(locationIds), "in"))>> ELSE <<>>)]

InventoryRow(sku, locationId, qty) ==
  [sku |-> sku, locationId |-> locationId, available |-> qty, onHand |-> qty,
   unavailable |-> 0, tenantId |-> world.vendorNs]

\* inventory/source-items answers with the SKU's source items, or with null
SourceItemBodies(sku) ==
  {ListBody(<<>>), ListBody(<<[sku |-> sku, source_code |-> "wh1", quantity |-> 5]>>), NullBody}

StockItemBodies == {[wellFormed |-> TRUE, qty |-> 4], NullBody}

\* getMsiInventory's loop from SKU k on
MsiLookup(r, k, results) ==
  IF k <= Len(r.input.skus)
  THEN Await(SetLoc(r, [k |-> k, results |-> results]), "GET", SourceItemsEndpoint,
             MsiFilters(r.input.skus[k], r.input.locationIds), "msi")
  ELSE Finish(r, successResult([inventory |-> results]))

\* getLegacyInventory's loop from SKU k on
LegacyLookup(r, k, results) ==
  IF k <= Len(r.input.skus)
  THEN Await(SetLoc(r, [k |-> k, results |-> results]), "GET",
             StockItemEndpoint(r.input.skus[k]), NoArg, "legacy")
  ELSE Finish(r, successResult([inventory |-> results]))

GetInventoryInvoke(i) ==
  /\ inv[i].pc = "idle"
  /\ \E params \in GetInventoryParams :
       LET r == New("get-inventory", params)
       IN inv' = [inv EXCEPT ![i] =
                    IF SkusMissing(params.skus)
                    THEN Finish(r, errorResult(<<"At least one SKU is required">>))
                    ELSE MsiLookup(r, 1, <<>>)]
  /\ UNCHANGED world

GetInventoryMsiResponse(i) ==
  /\ inv[i].tool = "get-inventory" /\ inv[i].pc = "msi"
  /\ \E o \in PlainOutcomes("GET", SourceItemsEndpoint, SourceItemBodies(inv[i].input.skus[inv[i].loc.k])) :
       LET r == Receive(inv[i], o)
           k == r.loc.k
           results == r.loc.results \o
             [j \in DOMAIN o.body.items |->
                InventoryRow(o.body.items[j].sku, o.body.items[j].source_code, o.body.items[j].quantity)]
       IN inv' = [inv EXCEPT ![i] =
                    IF Translates(o) THEN MsiLookup(r, k + 1, results)
                    ELSE LegacyLookup(r, 1, <<>>)]
  /\ UNCHANGED world

\* a stock item that cannot be fetched or read is skipped
GetInventoryLegacyResponse(i) ==
  /\ inv[i].tool = "get-inventory" /\ inv[i].pc = "legacy"
  /\ \E o \in PlainOutcomes("GET", StockItemEndpoint(inv[i].input.skus[inv[i].loc.k]), StockItemBodies) :
       LET r == Receive(inv[i], o)
           k == r.loc.k
           results == IF Translates(o)
                      THEN Append(r.loc.results, InventoryRow(r.input.skus[k], "default", o.body.qty))
                      ELSE r.loc.results
       IN inv' = [inv EXCEPT ![i] = LegacyLookup(r, k + 1, results)]
  /\ UNCHANGED world

-----------------------------------------------------------------------------
(* get-product-variants: fan-out over parent product ids, or direct lookup *)

ParentIds == <<"41", "42", "43", "44">>
ParentIdLists == {[k \in 1..n |-> ParentIds[k]] : n \in 1..MaxIds}

GetProductVariantsParams ==
  {[ids |-> Absent, skus |-> Absent, productIds |-> p, paging |-> NoPaging] : p \in ParentIdLists}
    \cup {[ids |-> Absent, skus |-> sk, productIds |-> p, paging |-> pg] :
            sk \in {Absent, <<"A">>}, p \in {Absent, <<>>}, pg \in world.pagings}

\* a child product of the parent: one whose custom_attributes the option
\* resolution and the mapper can read (wellFormed), or one they throw on
Child(k, wellFormed) ==
  [id |-> 500 + k, sku |-> SkuPool[k], wellFormed |-> wellFormed,
   custom_attributes |-> IF k = 1 THEN {<<ColorAttribute>>} ELSE NoList]

ChildLists == UNION {[1..n -> BOOLEAN] : n \in 0..MaxItems}
ChildrenBodies ==
  {ListBody([k \in DOMAIN flags |-> Child(k, flags[k])]) : flags \in ChildLists} \cup {NullBody}

ParentBodies == {ListBody(<<>>), ListBody(<<M2Products[1]>>), NullBody}

\* a variant that names the native SKU whatever its parent (not the code's)
AlwaysExternalProductId(product, parentId) == [externalProductId |-> product.sku]

\* externalProductId: parentId ? undefined : product.sku
ExternalProductId(product, parentId) ==
  IF TruthyText(parentId) THEN NoFields ELSE [externalProductId |-> product.sku]

\* the Variant as serialised: a key whose value is undefined is not there
mapM2ProductVariantToOnx(product, parentId, selectedOptions) ==
  [id |-> NumberToText(product.id), sku |-> product.sku,
   productId |-> IF TruthyText(parentId) THEN parentId ELSE <<>>,
   selectedOptions |-> OrEmpty(selectedOptions)]
  @@ ExternalProductId(product, parentId)

ParentCriteria(parentId) ==
  [filterGroups |-> <<Group(Filter("entity_id", <<parentId>>, "eq"))>>, pageSize |-> 1]

ChildrenEndpoint(parentSku) == <<"configurable-products/", encodeURIComponent(parentSku), "/children">>

VariantsCriteria(params) ==
  buildSearchCriteria(WithExtra(params.paging,
    IfList(params.ids, "entity_id") \o IfList(params.skus, "sku")
      \o <<Filter("type_id", <<"simple">>, "eq")>>))

\* the loop over params.productIds from parent k on
ParentLookup(r, k, allVariants) ==
  IF k <= Len(r.input.productIds)
  THEN Await(SetLoc(r, [k |-> k, allVariants |-> allVariants]), "GET", <<"products">>,
             ParentCriteria(r.input.productIds[k]), "parent")
  ELSE Finish(r, successResult([productVariants |-> allVariants]))

\* for (const child of children) { resolveSelectedOptions; allVariants.push(map) }:
\* the children pushed before the first one that throws
RECURSIVE PushedChildren(_, _, _)
PushedChildren(children, parentId, configOptions) ==
  IF children = <<>> \/ ~Head(children).wellFormed THEN <<>>
  ELSE <<mapM2ProductVariantToOnx(
           Head(children), <<parentId>>,
           {resolveSelectedOptions(Head(children), configOptions, buildOptionLabelMap(configOptions))})>>
         \o PushedChildren(Tail(children), parentId, configOptions)

GetProductVariantsInvoke(i) ==
  /\ inv[i].pc = "idle"
  /\ \E params \in GetProductVariantsParams :
       LET r == New("get-product-variants", params)
       IN inv' = [inv EXCEPT ![i] =
                    IF HasLength(params.productIds)
                    THEN ParentLookup(r, 1, <<>>)
                    ELSE Await(r, "GET", <<"products">>, VariantsCriteria(params), "direct")]
  /\ UNCHANGED world

GetProductVariantsParentResponse(i) ==
  /\ inv[i].tool = "get-product-variants" /\ inv[i].pc = "parent"
  /\ \E o \in PlainOutcomes("GET", <<"products">>, ParentBodies) :
       LET r == Receive(inv[i], o)
       IN inv' = [inv EXCEPT ![i] =
                    IF Translates(o) /\ Len(o.body.items) > 0
                    THEN Await(r, "GET", ChildrenEndpoint(o.body.items[1].sku), NoArg, "children")
                    ELSE ParentLookup(r, r.loc.k + 1, r.loc.allVariants)]
  /\ UNCHANGED world

GetProductVariantsChildrenResponse(i) ==
  /\ inv[i].tool = "get-product-variants" /\ inv[i].pc = "children"
  /\ \E o \in PlainOutcomes("GET", ChildrenEndpoint(M2Products[1].sku), ChildrenBodies) :
       LET r == Receive(inv[i], o)
           parent == inv[i].resps[Len(inv[i].resps)].body.items[1]
           pushed == IF Translates(o)
                     THEN PushedChildren(o.body.items, r.input.productIds[r.loc.k],
                                         OrEmpty(parent.configurable_product_options))
                     ELSE <<>>
       IN inv' = [inv EXCEPT ![i] = ParentLookup(r, r.loc.k + 1, r.loc.allVariants \o pushed)]
  /\ UNCHANGED world

GetProductVariantsDirectResponse(i) ==
  /\ inv[i].tool = "get-product-variants" /\ inv[i].pc = "direct"
  /\ \E o \in PlainOutcomes("GET", <<"products">>, ListBodies(M2Products)) :
       LET r == Receive(inv[i], o)
           variant(p) == mapM2ProductVariantToOnx(p, Absent, NoList)
       IN inv' = [inv EXCEPT ![i] =
                    IF Translates(o)
                    THEN Finish(r, successResult([productVariants |-> [k \in DOMAIN o.body.items |-> variant(o.body.items[k])]]))
                    ELSE Finish(r, CatchGuarded("get-product-variants", Raised(o)))]
  /\ UNCHANGED world

-----------------------------------------------------------------------------
(* The MCP server delivers the handler's result and the slot is free again *)

Respond(i) ==
  /\ inv[i].pc = "done"
  /\ inv' = [inv EXCEPT ![i] = IdleInv]
  /\ UNCHANGED world

-----------------------------------------------------------------------------
(* Specifications *)

\* error details when two invocations interleave
FewDetails == {<<>>, <<"4", "0", "4">>}

Worlds(transports, details, wide) ==
  [vendorNs : {"m2"}, currency : {"USD"}, transport : transports, details : {details},
   pagings : {IF wide THEN Pagings ELSE {NoPaging}},
   statusLists : {IF wide THEN {Absent, <<>>, <<"pending">>} ELSE {Absent}},
   orderIds : {IF wide THEN {"7", "8"} ELSE {"7"}},
   inspections : {IF wide THEN {FALSE, TRUE} ELSE {FALSE}},
   fees : {IF wide THEN {NoNumber, {4}} ELSE {NoNumber}}]

\* two returns invocations interleaving at their awaits
InitReturns ==
  /\ world \in Worlds({"MagentoClient"}, FewDetails, FALSE)
  /\ inv = [i \in 1..2 |-> IdleInv]

NextReturns ==
  \/ \E i \in Slots : GetReturnsInvoke(i)
  \/ \E i \in Slots : GetReturnsRmaResponse(i)
  \/ \E i \in Slots : GetReturnsCreditMemoResponse(i)
  \/ \E i \in Slots : CreateReturnInvoke(i)
  \/ \E i \in Slots : CreateReturnRmaResponse(i)
  \/ \E i \in Slots : CreateReturnRefundResponse(i)
  \/ \E i \in Slots : Respond(i)

SpecReturns == InitReturns /\ [][NextReturns]_vars

\* one invocation at a time, of any of the twelve tools, over MagentoClient
Init ==
  /\ world \in Worlds({"MagentoClient"}, TextsUpTo(MaxDetailLen), TRUE)
  /\ inv = [i \in 1..1 |-> IdleInv]

Next ==
  \/ \E i \in Slots : GetReturnsInvoke(i)
  \/ \E i \in Slots : GetReturnsRmaResponse(i)
  \/ \E i \in Slots : GetReturnsCreditMemoResponse(i)
  \/ \E i \in Slots : CreateReturnInvoke(i)
  \/ \E i \in Slots : CreateReturnRmaResponse(i)
  \/ \E i \in Slots : CreateReturnRefundResponse(i)
  \/ \E i \in Slots : GetOrdersInvoke(i)
  \/ \E i \in Slots : GetOrdersResponse(i)
  \/ \E i \in Slots : GetCustomersInvoke(i)
  \/ \E i \in Slots : GetCustomersResponse(i)
  \/ \E i \in Slots : GetFulfillmentsInvoke(i)
  \/ \E i \in Slots : GetFulfillmentsResponse(i)
  \/ \E i \in Slots : GetProductsInvoke(i)
  \/ \E i \in Slots : GetProductsSingleResponse(i)
  \/ \E i \in Slots : GetProductsSearchResponse(i)
  \/ \E i \in Slots : FulfillOrderInvoke(i)
  \/ \E i \in Slots : FulfillOrderShipResponse(i)
  \/ \E i \in Slots : FulfillOrderShipmentResponse(i)
  \/ \E i \in Slots : CancelOrderInvoke(i)
  \/ \E i \in Slots : CancelOrderCancelResponse(i)
  \/ \E i \in Slots : CancelOrderCommentResponse(i)
  \/ \E i \in Slots : CancelOrderOrderResponse(i)
  \/ \E i \in Slots : CreateSalesOrderInvoke(i)
  \/ \E i \in Slots : CreateSalesOrderOrderResponse(i)
  \/ \E i \in Slots : CreateSalesOrderCommentResponse(i)
  \/ \E i \in Slots : UpdateOrderInvoke(i)
  \/ \E i \in Slots : UpdateOrderStatusResponse(i)
  \/ \E i \in Slots : UpdateOrderCommentResponse(i)
  \/ \E i \in Slots : UpdateOrderBillingGetResponse(i)
  \/ \E i \in Slots : UpdateOrderBillingPutResponse(i)
  \/ \E i \in Slots : UpdateOrderFinalResponse(i)
  \/ \E i \in Slots : GetInventoryInvoke(i)
  \/ \E i \in Slots : GetInventoryMsiResponse(i)
  \/ \E i \in Slots : GetInventoryLegacyResponse(i)
  \/ \E i \in Slots : GetProductVariantsInvoke(i)
  \/ \E i \in Slots : GetProductVariantsParentResponse(i)
  \/ \E i \in Slots : GetProductVariantsChildrenResponse(i)
  \/ \E i \in Slots : GetProductVariantsDirectResponse(i)
  \/ \E i \in Slots : Respond(i)

Spec == Init /\ [][Next]_vars

\* the same handlers over a transport that may reject with any value
InitAnyThrow ==
  /\ world \in Worlds({"any"}, FewDetails, FALSE)
  /\ inv = [i \in 1..1 |-> IdleInv]

SpecAnyThrow == InitAnyThrow /\ [][Next]_vars

\* buildSearchCriteria applied to every request drawn from CriteriaParams
TemporalValues == {Absent, <<>>, D1, D2}

\* z.number().optional(): any number, zero and negative ones included
PageSizes == {0 - 10, 0, 1, 3, 10}
Skips == {0 - 10, 0, 7, 25}

CriteriaParams ==
  [createdAtMin : TemporalValues, createdAtMax : TemporalValues,
   updatedAtMin : TemporalValues, updatedAtMax : TemporalValues,
   pageSize : {NoNumber} \cup {{n} : n \in PageSizes}, skip : {NoNumber} \cup {{n} : n \in Skips},
   extraFilters : {<<>>, <<idsFilter("entity_id", <<"1", "2">>)>>,
                   <<idsFilter("status", <<"pending">>), idsFilter("entity_id", <<"1", "2">>)>>}]

InitCriteria ==
  /\ world \in Worlds({"MagentoClient"}, FewDetails, FALSE)
  /\ \E params \in CriteriaParams : inv = [i \in 1..1 |-> New("buildSearchCriteria", params)]

BuildSearchCriteriaCall(i) ==
  /\ inv[i].tool = "buildSearchCriteria" /\ inv[i].pc = "entered"
  /\ inv' = [inv EXCEPT ![i] = Finish(inv[i], buildSearchCriteria(inv[i].input))]
  /\ UNCHANGED world

NextCriteria == \E i \in Slots : BuildSearchCriteriaCall(i)

SpecCriteria == InitCriteria /\ [][NextCriteria]_vars

\* mapM2OrderToOnx alone, over native orders of up to MaxItems items
ProductTypes == {Absent, <<"simple">>, <<"configurable">>}
ItemDiscounts == {NoNumber, {0 - 200}, {200}}
OrderDiscounts == {NoNumber, {0 - 1250}, {1250}}

ItemLists ==
  UNION {{[j \in 1..n |-> OrderItem(j, f[j][1], f[j][2])] :
            f \in [1..n -> ProductTypes \X ItemDiscounts]} : n \in 0..MaxItems}

Addresses ==
  {NoAddress, {M2Address(NoList, Absent)}, {M2Address({<<<<"1 Main St">>>>}, <<"Paris">>)}}

NativeOrders ==
  {[entity_id |-> 101, items |-> items, discount_amount |-> d,
    ext_order_id |-> ext, billing_address |-> billing, shipping_method |-> method,
    shipping_address |-> shipping] :
     items \in ItemLists, d \in OrderDiscounts, ext \in {Absent, <<"E1">>},
     billing \in Addresses, method \in {Absent, <<"flatrate">>},
     shipping \in {NoAddress, {M2Address({<<<<"1 Main St">>>>}, <<"Paris">>)}}}

InitOrders ==
  /\ world \in Worlds({"MagentoClient"}, FewDetails, FALSE)
  /\ \E m2Order \in NativeOrders : inv = [i \in 1..1 |-> New("mapM2OrderToOnx", m2Order)]

MapM2OrderToOnxCall(i) ==
  /\ inv[i].tool = "mapM2OrderToOnx" /\ inv[i].pc = "entered"
  /\ inv' = [inv EXCEPT ![i] = Finish(inv[i], mapM2OrderToOnx(inv[i].input))]
  /\ UNCHANGED world

NextOrders == \E i \in Slots : MapM2OrderToOnxCall(i)

SpecOrders == InitOrders /\ [][NextOrders]_vars

\* resolveSelectedOptions alone: up to MaxItems parent options, each of its
\* own attribute, against a child of up to MaxItems custom attributes
OptionPool ==
  {ColorOption,
   ConfigurableOption(94, <<"S", " ", "Z">>, Absent, NoList),
   ConfigurableOption(95, Color, <<"h", "u", "e">>, {<<>>}),
   ConfigurableOption(96, <<"S", "\t", "Z">>, <<>>, {<<5>>})}

OptionLists ==
  UNION {{opts \in [1..n -> OptionPool] :
            \A a, b \in 1..n : a # b => opts[a].attribute_id # opts[b].attribute_id} :
         n \in 0..MaxItems}

AttributePool ==
  {ColorAttribute,
   CustomAttribute(<<"c", "o", "l", "o", "r">>, NumberValue(7)),
   CustomAttribute(Color, TextValue(<<"9">>)),
   CustomAttribute(<<"s", "_", "z">>, TextValue(<<"L">>)),
   CustomAttribute(<<"s", " ", "z">>, TextValue(<<"M">>)),
   CustomAttribute(<<"h", "u", "e">>, TextValue(<<"3">>))}

OptionChildren ==
  {[custom_attributes |-> NoList]}
    \cup {[custom_attributes |-> {attrs}] : attrs \in UNION {[1..n -> AttributePool] : n \in 0..MaxItems}}

InitOptions ==
  /\ world \in Worlds({"MagentoClient"}, FewDetails, FALSE)
  /\ \E child \in OptionChildren, configOptions \in OptionLists :
       inv = [i \in 1..1 |-> New("resolveSelectedOptions", [child |-> child, configOptions |-> configOptions])]

ResolveSelectedOptionsCall(i) ==
  /\ inv[i].tool = "resolveSelectedOptions" /\ inv[i].pc = "entered"
  /\ inv' = [inv EXCEPT ![i] =
               Finish(inv[i], resolveSelectedOptions(inv[i].input.child, inv[i].input.configOptions,
                                                     buildOptionLabelMap(inv[i].input.configOptions)))]
  /\ UNCHANGED world

NextOptions == \E i \in Slots : ResolveSelectedOptionsCall(i)

SpecOptions == InitOptions /\ [][NextOptions]_vars

\* mapM2ProductToOnx alone, over products with no option list, an empty one,
\* or up to MaxItems options
NativeProducts ==
  {[id |-> id, sku |-> "CFG", status |-> status, configurable_product_options |-> opts] :
     id \in {401, 402}, status \in {1, 2},
     opts \in {NoList} \cup {{o} : o \in OptionLists}}

InitProducts ==
  /\ world \in Worlds({"MagentoClient"}, FewDetails, FALSE)
  /\ \E product \in NativeProducts : inv = [i \in 1..1 |-> New("mapM2ProductToOnx", product)]

MapM2ProductToOnxCall(i) ==
  /\ inv[i].tool = "mapM2ProductToOnx" /\ inv[i].pc = "entered"
  /\ inv' = [inv EXCEPT ![i] = Finish(inv[i], mapM2ProductToOnx(inv[i].input))]
  /\ UNCHANGED world

NextProducts == \E i \in Slots : MapM2ProductToOnxCall(i)

SpecProducts == InitProducts /\ [][NextProducts]_vars

\* buildSearchParams alone, over criteria of up to MaxIds filter groups of one
\* or two filters, with each optional member present or not
GroupPool ==
  {[filters |-> <<Filter("entity_id", <<"1", ",", "2">>, "in")>>],
   [filters |-> <<[field |-> "sku", value |-> <<"A">>]>>],
   [filters |-> <<Filter("status", <<"pending">>, "eq"), [field |-> "sku", value |-> <<"A">>]>>],
   [filters |-> <<Filter("entity_id", <<"1", ",", "2">>, "in"), Filter("entity_id", <<"3">>, "eq")>>]}

Optionally(name, values) == {NoFields} \cup {name :> v : v \in values}

SearchCriterias ==
  {g @@ so @@ cp @@ ps :
     g \in Optionally("filterGroups", UNION {[1..n -> GroupPool] : n \in 0..MaxIds}),
     so \in Optionally("sortOrders",
                       {<<>>, <<[field |-> "created_at", direction |-> "DESC"]>>,
                        <<[field |-> "created_at", direction |-> "DESC"],
                          [field |-> "entity_id", direction |-> "ASC"]>>}),
     cp \in Optionally("currentPage", {0 - 2, 1}),
     ps \in Optionally("pageSize", {10})}

InitParams ==
  /\ world \in Worlds({"MagentoClient"}, FewDetails, FALSE)
  /\ \E criteria \in SearchCriterias : inv = [i \in 1..1 |-> New("buildSearchParams", criteria)]

BuildSearchParamsCall(i) ==
  /\ inv[i].tool = "buildSearchParams" /\ inv[i].pc = "entered"
  /\ inv' = [inv EXCEPT ![i] = Finish(inv[i], buildSearchParams(inv[i].input))]
  /\ UNCHANGED world

NextParams == \E i \in Slots : BuildSearchParamsCall(i)

SpecParams == InitParams /\ [][NextParams]_vars

-----------------------------------------------------------------------------
(* Properties of the capability fallback *)

IsReturnsTool(r) == r.tool \in {"get-returns", "create-return"}

LegacyEndpoint(r) ==
  IF r.tool = "get-returns" THEN CreditMemosEndpoint ELSE <<"order/", r.input.orderId, "/refund">>

\* the modern call was answered with HTTP status 404 or 403
ModernCapabilityAbsent(r) == Len(r.resps) >= 1 /\ r.resps[1].status \in {404, 403}

\* the modern call failed, or its result could not be translated, and the
\* response's status was neither 404 nor 403
ModernGenuineFailure(r) ==
  Len(r.resps) >= 1 /\ ~Translates(r.resps[1]) /\ r.resps[1].status \notin {404, 403}

IsFailureEnvelope(result) == result.kind = "envelope" /\ ~result.success /\ result.isError
IsSuccessEnvelope(result) == result.kind = "envelope" /\ result.success /\ ~result.isError

ReturnsOf(r) == IF r.tool = "get-returns" THEN r.result.data.returns ELSE <<r.result.data.return>>

TaggedCreditMemo(ret) ==
  \E k \in DOMAIN ret.customFields :
    ret.customFields[k] = [name |-> <<"m2", ":return_type">>, value |-> <<"credit_memo">>]

\* C1: in get-returns and create-return, a modern call answered 404 or 403 is
\* followed by exactly one legacy call and nothing more; a legacy result that
\* arrives and translates gives a success envelope whose Returns carry
\* <ns>:return_type = credit_memo; the legacy resource is never called first
\* and never called after a modern call that succeeded.
C1_OneShotFallback ==
  \A i \in Slots :
    LET r == inv[i]
    IN IsReturnsTool(r) =>
         /\ Len(r.calls) <= 2
         /\ Len(r.calls) >= 1 => r.calls[1].endpoint = <<"returns">>
         /\ Len(r.calls) = 2 => r.calls[2].endpoint = LegacyEndpoint(r)
         /\ ModernCapabilityAbsent(r) => Len(r.calls) = 2
         /\ (Len(r.resps) >= 1 /\ r.resps[1].ok) => Len(r.calls) = 1
         /\ (Len(r.resps) = 2 /\ Translates(r.resps[2])) =>
              /\ r.pc = "done" /\ IsSuccessEnvelope(r.result)
              /\ \A k \in DOMAIN ReturnsOf(r) : TaggedCreditMemo(ReturnsOf(r)[k])

\* a 404 whose body is not JSON reaches the handler as a TypeError: no legacy call
C1_Witness ==
  \E i \in Slots :
    /\ inv[i].tool = "get-returns" /\ inv[i].pc = "done"
    /\ inv[i].resps[1].status = 404 /\ inv[i].resps[1].thrown = BodyUnusableError
    /\ Len(inv[i].calls) = 1

\* C2: in get-returns, when the modern call fails with anything but a 404 or
\* 403 status (another status, a timeout, a translation failure), no call to
\* creditmemos is issued and the caller gets the failure envelope carrying
\* that failure.
C2_ReadPathPropagates ==
  \A i \in Slots :
    LET r == inv[i]
    IN (r.tool = "get-returns" /\ ModernGenuineFailure(r)) =>
         /\ Len(r.calls) = 1 /\ r.pc = "done"
         /\ IsFailureEnvelope(r.result)
         /\ r.result.error = <<"get-returns", " failed: ">> \o Raised(r.resps[1]).message

C2_Witness ==
  \E i \in Slots :
    /\ inv[i].tool = "get-returns" /\ inv[i].pc = "done"
    /\ inv[i].resps[1].status = 500 /\ IsMagentoApiError(inv[i].resps[1].thrown)
    /\ Len(inv[i].calls) = 1 /\ IsFailureEnvelope(inv[i].result)

\* C3: in create-return, when POST returns fails with a status that is not 404
\* or 403 (or with no status at all), no POST to order/{id}/refund is issued and
\* the failure is reported, whatever the error detail says; and the write
\* path's fallback decision agrees with the read path's on every rejection.
C3_WritePathPropagates ==
  /\ \A i \in Slots :
       LET r == inv[i]
       IN (r.tool = "create-return" /\ Len(r.resps) >= 1 /\ ~r.resps[1].ok
             /\ r.resps[1].status \notin {404, 403}) =>
            /\ Len(r.calls) = 1 /\ r.pc = "done"
            /\ IsFailureEnvelope(r.result)
  /\ \A i \in Slots :
       LET r == inv[i]
       IN (r.tool = "create-return" /\ Len(r.resps) >= 1 /\ ~r.resps[1].ok) =>
            (CreateReturnShouldFallBack(r.resps[1].thrown)
               <=> GetReturnsShouldFallBack(r.resps[1].thrown))

\* a server error whose detail text contains "404" is followed by the refund POST
C3_Witness ==
  \E i \in Slots :
    /\ inv[i].tool = "create-return" /\ Len(inv[i].resps) >= 1
    /\ inv[i].resps[1].status = 500 /\ Includes(inv[i].resps[1].thrown.message, <<"4", "0", "4">>)
    /\ Len(inv[i].calls) = 2 /\ inv[i].calls[2].endpoint = RefundEndpoint(inv[i].input)

\* C5: in get-returns and create-return, once the modern call was answered 404
\* or 403 the invocation ends with the success envelope built from the legacy
\* result, or with the failure envelope carrying the legacy call's failure.
C5_CapabilityAbsenceNotSurfaced ==
  \A i \in Slots :
    LET r == inv[i]
    IN (IsReturnsTool(r) /\ r.pc = "done" /\ ModernCapabilityAbsent(r)) =>
         /\ Len(r.resps) = 2
         /\ IF Translates(r.resps[2])
            THEN IsSuccessEnvelope(r.result)
            ELSE r.result = errorResult(<<r.tool, " failed: ">> \o Raised(r.resps[2]).message)

\* a 403 whose body is not JSON ends create-return with that failure reported
C5_Witness ==
  \E i \in Slots :
    /\ inv[i].tool = "create-return" /\ inv[i].pc = "done"
    /\ inv[i].resps[1].status = 403 /\ Len(inv[i].resps) = 1
    /\ inv[i].result = errorResult(<<"create-return", " failed: ">> \o BodyUnusableError.message)

-----------------------------------------------------------------------------
(* Properties of the error boundary *)

C7_EmptySkusRejected ==
  \A i \in Slots :
    LET r == inv[i]
    IN r.tool = "get-inventory" =>
         /\ Len(r.input.skus) = 0 =>
              /\ r.pc = "done" /\ Len(r.calls) = 0
              /\ r.result = errorResult(<<"At least one SKU is required">>)
         /\ Len(r.input.skus) > 0 => Len(r.calls) >= 1

C7_Witness ==
  \E i \in Slots :
    /\ inv[i].tool = "get-inventory" /\ inv[i].pc = "done"
    /\ inv[i].input.skus = <<>> /\ inv[i].calls = <<>>
    /\ IsFailureEnvelope(inv[i].result)

\* C8: for every tool, an invocation all of whose transport calls failed ends
\* with the failure envelope, never with a success envelope.
C8_SustainedFailureReported ==
  \A i \in Slots :
    LET r == inv[i]
    IN (r.pc = "done" /\ Len(r.resps) >= 1 /\ \A k \in DOMAIN r.resps : ~r.resps[k].ok) =>
         IsFailureEnvelope(r.result)


\* get-inventory reports success with an empty inventory when every call failed
C8_Witness ==
  \E i \in Slots :
    /\ inv[i].tool = "get-inventory" /\ inv[i].pc = "done"
    /\ Len(inv[i].resps) = 1 + Len(inv[i].input.skus)
    /\ \A k \in DOMAIN inv[i].resps : inv[i].resps[k].status = 500
    /\ inv[i].result = successResult([inventory |-> <<>>])

-----------------------------------------------------------------------------
(* Properties of the variant fan-out *)

\* every child of the answer can be resolved and translated
AllChildrenResolve(o) == Translates(o) /\ \A m \in DOMAIN o.body.items : o.body.items[m].wellFormed

\* The variants owed from parent k on, whose lookups start at response j: all
\* the children of a parent whose resolution met no failure, none for a parent
\* that was not found or whose resolution failed.
RECURSIVE ResolvedVariants(_, _, _)
ResolvedVariants(r, k, j) ==
  IF k > Len(r.input.productIds) THEN <<>>
  ELSE IF ~(Translates(r.resps[j]) /\ Len(r.resps[j].body.items) > 0)
  THEN ResolvedVariants(r, k + 1, j + 1)
  ELSE (IF AllChildrenResolve(r.resps[j + 1])
        THEN [m \in DOMAIN r.resps[j + 1].body.items |->
                [id |-> NumberToText(r.resps[j + 1].body.items[m].id),
                 sku |-> r.resps[j + 1].body.items[m].sku,
                 productId |-> <<r.input.productIds[k]>>]]
        ELSE <<>>)
       \o ResolvedVariants(r, k + 1, j + 2)

\* C9: get-product-variants over a non-empty productIds list always returns
\* success; the result holds every variant of every parent that resolved
\* without failure and no variant at all of a parent whose resolution failed.
C9_FanOutOmitsFailedParents ==
  \A i \in Slots :
    LET r == inv[i]
    IN (r.tool = "get-product-variants" /\ HasLength(r.input.productIds) /\ r.pc = "done") =>
         /\ IsSuccessEnvelope(r.result)
         /\ [m \in DOMAIN r.result.data.productVariants |->
               [id |-> r.result.data.productVariants[m].id,
                sku |-> r.result.data.productVariants[m].sku,
                productId |-> r.result.data.productVariants[m].productId]]
              = ResolvedVariants(r, 1, 1)


\* a parent whose second child cannot be resolved leaves its first child's variant
C9_Witness ==
  \E i \in Slots :
    /\ inv[i].tool = "get-product-variants" /\ inv[i].pc = "done"
    /\ inv[i].input.productIds = <<"41">> /\ Len(inv[i].resps) = 2
    /\ Translates(inv[i].resps[2]) /\ ~AllChildrenResolve(inv[i].resps[2])
    /\ Len(inv[i].result.data.productVariants) = 1

-----------------------------------------------------------------------------
(* Properties of the criteria builder *)

\* an ISO-8601 bound that is given
Dated(t) == t # Absent /\ Len(t) > 0

TemporalBounds(params) ==
  <<[field |-> "created_at", conditionType |-> "gteq", value |-> params.createdAtMin],
    [field |-> "created_at", conditionType |-> "lteq", value |-> params.createdAtMax],
    [field |-> "updated_at", conditionType |-> "gteq", value |-> params.updatedAtMin],
    [field |-> "updated_at", conditionType |-> "lteq", value |-> params.updatedAtMax]>>

GroupsOf(criteria) == IF "filterGroups" \in DOMAIN criteria THEN criteria.filterGroups ELSE <<>>

\* C10: buildSearchCriteria, for each of the 16 combinations of given and
\* absent temporal bounds, emits exactly one filter group per given bound (its
\* field, operator and value) and none for an absent one, before the groups of
\* the extra filters; with no bound and no extra filter the key filterGroups is
\* absent, and it is never an empty list.
C10_OneGroupPerBound ==
  \A i \in Slots :
    LET r == inv[i]
        bounds == TemporalBounds(r.input)
        groups == GroupsOf(r.result)
        given == {b \in DOMAIN bounds : bounds[b].value # Absent}
    IN (r.tool = "buildSearchCriteria" /\ r.pc = "done"
          /\ \A b \in DOMAIN bounds : bounds[b].value = Absent \/ Dated(bounds[b].value)) =>
         /\ Len(groups) = Cardinality(given) + Len(r.input.extraFilters)
         /\ \A b \in DOMAIN bounds :
              Cardinality({k \in DOMAIN groups :
                             /\ groups[k].filters[1].field = bounds[b].field
                             /\ groups[k].filters[1].conditionType = bounds[b].conditionType})
                = (IF b \in given THEN 1 ELSE 0)
         /\ \A b \in given :
              \E k \in DOMAIN groups :
                groups[k] = [filters |-> <<[field |-> bounds[b].field, value |-> bounds[b].value,
                                            conditionType |-> bounds[b].conditionType]>>]
         /\ (given = {} /\ r.input.extraFilters = <<>>) <=> "filterGroups" \notin DOMAIN r.result

C10_Witness ==
  \E i \in Slots :
    /\ inv[i].tool = "buildSearchCriteria" /\ inv[i].pc = "done"
    /\ inv[i].input.createdAtMin = D1 /\ inv[i].input.updatedAtMax = D2
    /\ inv[i].input.createdAtMax = Absent /\ inv[i].input.updatedAtMin = Absent
    /\ "filterGroups" \in DOMAIN inv[i].result
    /\ Len(inv[i].result.filterGroups) = 2 + Len(inv[i].input.extraFilters)

-----------------------------------------------------------------------------
(* Properties of the page position *)

OrDefault(n, default) == IF n = NoNumber THEN default ELSE NumberOf(n)

\* C11: for every skip >= 0 and pageSize >= 1 (each possibly unspecified: skip
\* is then 0 and pageSize 10), the criteria's pageSize is the requested one and
\* currentPage = floor(skip / pageSize) + 1, i.e. the page holds item number
\* skip; skip 0 / pageSize 10 gives 1 and skip 25 / pageSize 10 gives 3.
C11_PageMath ==
  \A i \in Slots :
    LET r == inv[i]
        pageSize == OrDefault(r.input.pageSize, 10)
        skip == OrDefault(r.input.skip, 0)
    IN (r.tool = "buildSearchCriteria" /\ r.pc = "done" /\ skip >= 0 /\ pageSize >= 1) =>
         /\ r.result.pageSize = pageSize
         /\ pageSize * (r.result.currentPage - 1) <= skip
         /\ skip < pageSize * r.result.currentPage
         /\ (skip = 0 /\ pageSize = 10) => r.result.currentPage = 1
         /\ (skip = 25 /\ pageSize = 10) => r.result.currentPage = 3

C11_Witness ==
  \E i \in Slots :
    /\ inv[i].tool = "buildSearchCriteria" /\ inv[i].pc = "done"
    /\ inv[i].input.skip = {25} /\ inv[i].input.pageSize = {10}
    /\ inv[i].result.currentPage = 3 /\ inv[i].result.pageSize = 10

\* C12: the criteria of every transport call have currentPage >= 1, for every
\* paging input the schema accepts (zero and negative numbers included).
C12_CurrentPageOneIndexed ==
  \A i \in Slots :
    \A k \in DOMAIN inv[i].calls :
      "currentPage" \in DOMAIN inv[i].calls[k].arg => inv[i].calls[k].arg.currentPage >= 1

\* get-orders asked to skip -10 sends currentPage 0
C12_Witness ==
  \E i \in Slots :
    /\ inv[i].tool = "get-orders" /\ Len(inv[i].calls) = 1
    /\ inv[i].input.paging.skip = {0 - 10}
    /\ inv[i].calls[1].arg.currentPage = 0

-----------------------------------------------------------------------------
(* Properties of the list filters *)

ListParam(field, ids) == [field |-> field, ids |-> ids]

\* the list parameters that bear on an invocation's search call, with the
\* native field each one filters
ListParams(r) ==
  CASE r.tool \in {"get-orders", "get-customers", "get-fulfillments"} ->
         <<ListParam("entity_id", r.input.ids)>>
    [] r.tool = "get-returns" ->
         <<ListParam("entity_id", r.input.ids), ListParam("order_id", r.input.orderIds),
           ListParam("status", r.input.statuses), ListParam("increment_id", r.input.returnNumbers)>>
    [] r.tool = "get-products" /\ r.calls[1].endpoint = <<"products">> ->
         <<ListParam("entity_id", r.input.ids), ListParam("sku", r.input.skus)>>
    [] r.tool = "get-product-variants" /\ r.calls[1].arg.pageSize # 1 ->
         <<ListParam("entity_id", r.input.ids), ListParam("sku", r.input.skus)>>
    [] r.tool = "get-inventory" -> <<ListParam("source_code", r.input.locationIds)>>
    [] OTHER -> <<>>

GroupsOn(groups, field) ==
  {g \in DOMAIN groups : \E f \in DOMAIN groups[g].filters : groups[g].filters[f].field = field}

\* value is the ids in input order with a "," between neighbours
IsCommaJoin(value, ids) ==
  /\ Len(value) = 2 * Len(ids) - 1
  /\ \A k \in DOMAIN ids : value[2 * k - 1] = ids[k]
  /\ \A k \in 1..(Len(ids) - 1) : value[2 * k] = ","

-----------------------------------------------------------------------------
(* Properties of the shape of the criteria *)

\* the place of a temporal filter in the order createdAtMin, createdAtMax,
\* updatedAtMin, updatedAtMax; 0 for any other filter
BoundRank(f) ==
  CASE f.field = "created_at" /\ f.conditionType = "gteq" -> 1
    [] f.field = "created_at" /\ f.conditionType = "lteq" -> 2
    [] f.field = "updated_at" /\ f.conditionType = "gteq" -> 3
    [] f.field = "updated_at" /\ f.conditionType = "lteq" -> 4
    [] OTHER -> 0

\* C15: every criteria buildSearchCriteria returns has only groups of exactly
\* one filter; the groups of the temporal bounds come first, in the order
\* created_at gteq, created_at lteq, updated_at gteq, updated_at lteq, then one
\* group per extra filter in the order given; sortOrders is [created_at DESC].
C15_SingleFilterGroupsInOrder ==
  \A i \in Slots :
    LET r == inv[i]
        groups == GroupsOf(r.result)
        extras == r.input.extraFilters
        temporal == Len(groups) - Len(extras)
    IN (r.tool = "buildSearchCriteria" /\ r.pc = "done") =>
         /\ \A g \in DOMAIN groups : Len(groups[g].filters) = 1
         /\ temporal >= 0
         /\ \A k \in DOMAIN extras : groups[temporal + k].filters = <<extras[k]>>
         /\ \A a \in 1..temporal : BoundRank(groups[a].filters[1]) \in 1..4
         /\ \A a, b \in 1..temporal :
              a < b => BoundRank(groups[a].filters[1]) < BoundRank(groups[b].filters[1])
         /\ r.result.sortOrders = <<[field |-> "created_at", direction |-> "DESC"]>>

C15_Witness ==
  \E i \in Slots :
    /\ inv[i].tool = "buildSearchCriteria" /\ inv[i].pc = "done"
    /\ \A b \in DOMAIN TemporalBounds(inv[i].input) : Dated(TemporalBounds(inv[i].input)[b].value)
    /\ Len(inv[i].input.extraFilters) = 2
    /\ Len(inv[i].result.filterGroups) = 6
    /\ inv[i].result.filterGroups[5].filters[1].field = "status"

-----------------------------------------------------------------------------
(* Properties of the Returns *)

FinancialFields ==
  {"returnTotal", "refundAmount", "refundMethod", "refundStatus", "shippingRefundAmount",
   "restockingFee"}

\* the values of the Return's <ns>:return_type custom fields
ReturnTypes(ret) ==
  {ret.customFields[k].value :
     k \in {j \in DOMAIN ret.customFields : ret.customFields[j].name = <<world.vendorNs, ":return_type">>}}

Uninspected(ret) ==
  \A j \in DOMAIN ret.returnLineItems : "inspection" \notin DOMAIN ret.returnLineItems[j]

\* C16: every Return that get-returns or create-return hands back carries the
\* custom field <ns>:return_type, with value rma when it came from the modern
\* resource and credit_memo when it came from the legacy one; an rma Return
\* has none of the aggregate financial fields, and a credit_memo Return has no
\* inspection on any line item.
C16_OriginSubsetsExclusive ==
  \A i \in Slots :
    LET r == inv[i]
    IN (IsReturnsTool(r) /\ r.pc = "done" /\ IsSuccessEnvelope(r.result)) =>
         \A k \in DOMAIN ReturnsOf(r) :
           LET ret == ReturnsOf(r)[k]
           IN IF Len(r.calls) = 1
              THEN ReturnTypes(ret) = {<<"rma">>} /\ DOMAIN ret \cap FinancialFields = {}
              ELSE ReturnTypes(ret) = {<<"credit_memo">>} /\ Uninspected(ret)

\* create-return over the modern resource answers with a Return tagged rma
\* that has refundStatus, shippingRefundAmount and restockingFee
C16_Witness ==
  \E i \in Slots :
    /\ inv[i].tool = "create-return" /\ inv[i].pc = "done" /\ Len(inv[i].calls) = 1
    /\ IsSuccessEnvelope(inv[i].result)
    /\ ReturnTypes(inv[i].result.data.return) = {<<"rma">>}
    /\ {"refundStatus", "shippingRefundAmount", "restockingFee"} \subseteq DOMAIN inv[i].result.data.return

\* C17: every Return that get-returns translates from a credit memo is tagged
\* credit_memo, has no inspection on any line item, has refundMethod,
\* refundStatus, shippingRefundAmount and restockingFee, has returnTotal
\* exactly when the credit memo has subtotal and refundAmount exactly when it
\* has grand_total, and its restockingFee is the magnitude of
\* adjustment_negative (0 when absent), never negative.
C17_LegacyShape ==
  \A i \in Slots :
    LET r == inv[i]
    IN (r.tool = "get-returns" /\ r.pc = "done" /\ Len(r.calls) = 2 /\ IsSuccessEnvelope(r.result)) =>
         LET cms == r.resps[2].body.items
             returns == r.result.data.returns
         IN /\ Len(returns) = Len(cms)
            /\ \A k \in DOMAIN returns :
                 /\ TaggedCreditMemo(returns[k])
                 /\ Uninspected(returns[k])
                 /\ {"refundMethod", "refundStatus", "shippingRefundAmount", "restockingFee"}
                      \subseteq DOMAIN returns[k]
                 /\ "returnTotal" \in DOMAIN returns[k] <=> cms[k].subtotal # NoNumber
                 /\ "refundAmount" \in DOMAIN returns[k] <=> cms[k].grand_total # NoNumber
                 /\ returns[k].restockingFee >= 0
                 /\ \A n \in cms[k].adjustment_negative : returns[k].restockingFee \in {n, 0 - n}
                 /\ cms[k].adjustment_negative = NoNumber => returns[k].restockingFee = 0

C17_Witness ==
  \E i \in Slots :
    /\ inv[i].tool = "get-returns" /\ inv[i].pc = "done" /\ Len(inv[i].calls) = 2
    /\ IsSuccessEnvelope(inv[i].result)
    /\ Len(inv[i].result.data.returns) >= 2
    /\ inv[i].resps[2].body.items[1].adjustment_negative = {0 - 3}
    /\ inv[i].result.data.returns[1].restockingFee = 3
    /\ inv[i].result.data.returns[1].returnTotal = 50
    /\ "returnTotal" \notin DOMAIN inv[i].result.data.returns[2]

\* C18: the legacy call of get-returns carries the same search criteria as
\* the modern call it replaces: the same filters for ids, orderIds,
\* returnNumbers, statuses and the temporal bounds, and the same page.
C18_LegacyRetryEquivalent ==
  \A i \in Slots :
    (inv[i].tool = "get-returns" /\ Len(inv[i].calls) = 2) =>
      inv[i].calls[2].arg = inv[i].calls[1].arg

\* the caller's statuses filter the modern query and not the legacy one
C18_Witness ==
  \E i \in Slots :
    /\ inv[i].tool = "get-returns" /\ Len(inv[i].calls) = 2
    /\ inv[i].input.statuses = <<"pending">>
    /\ GroupsOn(GroupsOf(inv[i].calls[1].arg), "status") # {}
    /\ GroupsOn(GroupsOf(inv[i].calls[2].arg), "status") = {}

-----------------------------------------------------------------------------
(* Properties of the order translation *)

\* the positions of the native items that are not configurable
Plain(items) == {j \in DOMAIN items : items[j].product_type # <<"configurable">>}

\* C19: the lineItems of mapM2OrderToOnx are the native items whose
\* product_type is not "configurable", in native order: there are as many as
\* such native items, and the k-th is the k-th such item; a configurable
\* parent followed by its simple child gives the child alone.
C19_ConfigurableParentsDropped ==
  \A i \in Slots :
    LET r == inv[i]
        items == r.input.items
        lineItems == r.result.lineItems
    IN (r.tool = "mapM2OrderToOnx" /\ r.pc = "done") =>
         /\ Len(lineItems) = Cardinality(Plain(items))
         /\ \A j \in Plain(items) :
              lineItems[Cardinality({h \in Plain(items) : h <= j})].id = NumberToText(items[j].item_id)
         /\ (Len(items) = 2 /\ Plain(items) = {2}) =>
              Len(lineItems) = 1 /\ lineItems[1].id = <<"2">>

C19_Witness ==
  \E i \in Slots :
    /\ inv[i].tool = "mapM2OrderToOnx" /\ inv[i].pc = "done"
    /\ Len(inv[i].input.items) = 2
    /\ inv[i].input.items[1].product_type = <<"configurable">>
    /\ inv[i].input.items[2].product_type = <<"simple">>
    /\ Len(inv[i].result.lineItems) = 1 /\ inv[i].result.lineItems[1].id = <<"2">>

\* C20: in the order mapM2OrderToOnx returns, orderDiscount is the magnitude
\* of the native discount_amount (-12.50 gives 12.50, absent gives 0) and
\* every line item's unitDiscount is >= 0, whatever the native signs.
C20_DiscountsNonNegative ==
  \A i \in Slots :
    LET r == inv[i]
    IN (r.tool = "mapM2OrderToOnx" /\ r.pc = "done") =>
         /\ r.result.orderDiscount >= 0
         /\ \A n \in r.input.discount_amount : r.result.orderDiscount \in {n, 0 - n}
         /\ r.input.discount_amount = NoNumber => r.result.orderDiscount = 0
         /\ \A k \in DOMAIN r.result.lineItems : r.result.lineItems[k].unitDiscount >= 0

\* an item stored with a negative discount_amount keeps the sign
C20_Witness ==
  \E i \in Slots :
    /\ inv[i].tool = "mapM2OrderToOnx" /\ inv[i].pc = "done"
    /\ inv[i].input.discount_amount = {0 - 1250} /\ inv[i].result.orderDiscount = 1250
    /\ Len(inv[i].input.items) = 1
    /\ inv[i].input.items[1].discount_amount = {0 - 200}
    /\ inv[i].result.lineItems[1].unitDiscount = 0 - 200

-----------------------------------------------------------------------------
(* Properties of the selected options *)

AttrsOf(child) ==
  IF child.custom_attributes = NoList THEN <<>> ELSE CHOOSE attrs \in child.custom_attributes : TRUE

\* the child attribute each option of the pool is looked up by
ExpectedKey(opt) ==
  CASE opt.attribute_id = 93 -> <<"c", "o", "l", "o", "r">>
    [] opt.attribute_id = 94 -> <<"s", "_", "z">>
    [] opt.attribute_id = 95 -> <<"h", "u", "e">>
    [] opt.attribute_id = 96 -> <<"s", "_", "z">>

Carrying(attrs, key) == {a \in DOMAIN attrs : attrs[a].attribute_code = key}

\* C21: resolveSelectedOptions returns, in the parent's option order, one
\* {name, value} pair for each option whose key is among the child's custom
\* attributes, named by the option's label and valued by the stored value as a
\* string; an option whose key the child lacks is skipped, a child with no
\* attribute gives [], and {93, Color, color} against {color, 42} gives
\* [{Color, 42}].
C21_SelectedOptionsInParentOrder ==
  \A i \in Slots :
    LET r == inv[i]
        opts == r.input.configOptions
        attrs == AttrsOf(r.input.child)
        found == {k \in DOMAIN opts : Carrying(attrs, ExpectedKey(opts[k])) # {}}
    IN (r.tool = "resolveSelectedOptions" /\ r.pc = "done") =>
         /\ Len(r.result) = Cardinality(found)
         /\ \A k \in found :
              LET pair == r.result[Cardinality({h \in found : h <= k})]
              IN /\ pair.name = opts[k].label
                 /\ \E a \in Carrying(attrs, ExpectedKey(opts[k])) :
                      pair.value = (IF attrs[a].value.isNumber
                                    THEN NumberToText(attrs[a].value.n) ELSE attrs[a].value.text)
         /\ attrs = <<>> => r.result = <<>>
         /\ (opts = <<ColorOption>>
               /\ attrs = <<ColorAttribute>>) =>
              r.result = <<[name |-> Color, value |-> <<"4", "2">>]>>

\* the option the child lacks is skipped and the one it has is resolved
C21_Witness ==
  \E i \in Slots :
    /\ inv[i].tool = "resolveSelectedOptions" /\ inv[i].pc = "done"
    /\ Len(inv[i].input.configOptions) = 2
    /\ inv[i].input.configOptions[1].attribute_id = 94
    /\ inv[i].input.configOptions[2].attribute_id = 93
    /\ AttrsOf(inv[i].input.child) = <<ColorAttribute>>
    /\ inv[i].result = <<[name |-> Color, value |-> <<"4", "2">>]>>

\* the label in lower case with its whitespace replaced by an underscore
DerivedKey(label) ==
  CASE label = Color -> <<"c", "o", "l", "o", "r">>
    [] label = <<"S", " ", "Z">> -> <<"s", "_", "z">>
    [] label = <<"S", "\t", "Z">> -> <<"s", "_", "z">>

-----------------------------------------------------------------------------
(* Properties of the variants and products *)

\* C23: every Variant get-product-variants returns through a parent
\* (productIds) has productId set to a parent id of the request and no
\* externalProductId; every Variant of a direct lookup has externalProductId
\* equal to its native SKU and an empty productId.
C23_OneParentLinkage ==
  \A i \in Slots :
    LET r == inv[i]
    IN (r.tool = "get-product-variants" /\ r.pc = "done" /\ IsSuccessEnvelope(r.result)) =>
         \A m \in DOMAIN r.result.data.productVariants :
           LET v == r.result.data.productVariants[m]
           IN IF r.input.productIds # Absent /\ Len(r.input.productIds) >= 1
              THEN /\ \E k \in DOMAIN r.input.productIds : v.productId = <<r.input.productIds[k]>>
                   /\ "externalProductId" \notin DOMAIN v
              ELSE /\ "externalProductId" \in DOMAIN v
                   /\ v.externalProductId = v.sku
                   /\ v.productId = <<>>

\* a child reached through parent 41, with its Color option resolved
C23_Witness ==
  \E i \in Slots :
    /\ inv[i].tool = "get-product-variants" /\ inv[i].pc = "done"
    /\ inv[i].input.productIds = <<"41">>
    /\ IsSuccessEnvelope(inv[i].result)
    /\ Len(inv[i].result.data.productVariants) >= 1
    /\ inv[i].result.data.productVariants[1].productId = <<"41">>
    /\ inv[i].result.data.productVariants[1].selectedOptions = <<[name |-> Color, value |-> <<"4", "2">>]>>
    /\ "externalProductId" \notin DOMAIN inv[i].result.data.productVariants[1]

\* the value_index tokens of the pool's options, as strings
ValueTokens(opt) ==
  CASE opt.attribute_id = 93 -> <<<<"1">>, <<"2">>>>
    [] opt.attribute_id = 96 -> <<<<"5">>>>
    [] OTHER -> <<>>

\* C24: the options of mapM2ProductToOnx are never empty: one option per
\* native configurable option, in native order, named by its label and
\* holding its value_index tokens as strings; and, when the product has no
\* configurable option, the single option {name: "Default", values: []}.
C24_AtLeastOneOption ==
  \A i \in Slots :
    LET r == inv[i]
        native == IF r.input.configurable_product_options = NoList THEN <<>>
                  ELSE CHOOSE o \in r.input.configurable_product_options : TRUE
    IN (r.tool = "mapM2ProductToOnx" /\ r.pc = "done") =>
         /\ Len(r.result.options) >= 1
         /\ Len(native) >= 1 =>
              /\ Len(r.result.options) = Len(native)
              /\ \A k \in DOMAIN native :
                   r.result.options[k] = [name |-> native[k].label, values |-> ValueTokens(native[k])]
         /\ Len(native) = 0 => r.result.options = <<[name |-> <<"Default">>, values |-> <<>>]>>

\* a product with an empty option list gets the Default option
C24_Witness ==
  \E i \in Slots :
    /\ inv[i].tool = "mapM2ProductToOnx" /\ inv[i].pc = "done"
    /\ inv[i].input.configurable_product_options = {<<>>}
    /\ inv[i].result.options = <<[name |-> <<"Default">>, values |-> <<>>]>>

-----------------------------------------------------------------------------
(* Properties of the absent fields of an order *)

\* the street lines of an optional native address that has them
LinesOf(address) ==
  IF address = NoAddress THEN 0
  ELSE LET addr == CHOOSE a \in address : TRUE
       IN IF addr.street = NoList THEN 0 ELSE Len(CHOOSE l \in addr.street : TRUE)

\* C25: in the Order mapM2OrderToOnx returns, a field whose native field is
\* absent is absent: externalId without ext_order_id, billingAddress without
\* billing_address, shippingAddress without a shipping assignment,
\* shippingCode without shipping_method, and address1 / address2 of an
\* address without that street line.
C25_AbsentStaysAbsent ==
  \A i \in Slots :
    LET r == inv[i]
    IN (r.tool = "mapM2OrderToOnx" /\ r.pc = "done") =>
         /\ r.input.ext_order_id = Absent => "externalId" \notin DOMAIN r.result
         /\ r.input.billing_address = NoAddress => "billingAddress" \notin DOMAIN r.result
         /\ r.input.shipping_address = NoAddress => "shippingAddress" \notin DOMAIN r.result
         /\ r.input.shipping_method = Absent => "shippingCode" \notin DOMAIN r.result
         /\ (r.input.billing_address # NoAddress /\ LinesOf(r.input.billing_address) < 1) =>
              "address1" \notin DOMAIN r.result.billingAddress
         /\ (r.input.billing_address # NoAddress /\ LinesOf(r.input.billing_address) < 2) =>
              "address2" \notin DOMAIN r.result.billingAddress

\* an order with no shipping_method and a billing address of no street gets
\* shippingCode "" and address1 "", while its externalId and shippingAddress
\* are left out
C25_Witness ==
  \E i \in Slots :
    /\ inv[i].tool = "mapM2OrderToOnx" /\ inv[i].pc = "done"
    /\ inv[i].input.shipping_method = Absent /\ inv[i].input.ext_order_id = Absent
    /\ inv[i].input.shipping_address = NoAddress
    /\ inv[i].input.billing_address = {M2Address(NoList, Absent)}
    /\ inv[i].result.shippingCode = <<>>
    /\ inv[i].result.billingAddress.address1 = <<>>
    /\ "externalId" \notin DOMAIN inv[i].result
    /\ "shippingAddress" \notin DOMAIN inv[i].result

-----------------------------------------------------------------------------
(* Properties of the transport *)

\* the k-th call of r was answered by a non-success HTTP response
AnsweredFailure(r, k) == k <= Len(r.resps) /\ ~r.resps[k].ok /\ r.resps[k].status \notin {0, 200}

\* C26: every call answered by a non-success response, whatever its status
\* and whether or not its body is JSON, raises a MagentoApiError carrying the
\* response's status code, whose message names the method, the endpoint and
\* the status; so the fallback test of get-returns passes exactly when the
\* modern call was answered 404 or 403.
C26_FailuresAreTyped ==
  \A i \in Slots :
    LET r == inv[i]
    IN \A k \in DOMAIN r.calls :
         AnsweredFailure(r, k) =>
           LET e == r.resps[k].thrown
               head == <<"Magento API error: ", r.calls[k].method, " ">> \o r.calls[k].endpoint
                         \o <<" returned ">> \o NumberToText(r.resps[k].status)
           IN /\ IsMagentoApiError(e)
              /\ e.statusCode = r.resps[k].status
              /\ Len(e.message) >= Len(head) /\ SubSeq(e.message, 1, Len(head)) = head
              /\ (r.tool = "get-returns" /\ k = 1) =>
                   (GetReturnsShouldFallBack(e) <=> r.resps[k].status \in {404, 403})

\* a 500 whose body is not JSON reaches the handler as a TypeError without status
C26_Witness ==
  \E i \in Slots :
    /\ inv[i].tool = "get-orders" /\ Len(inv[i].resps) = 1
    /\ inv[i].resps[1].status = 500
    /\ inv[i].resps[1].thrown = BodyUnusableError
    /\ ~IsMagentoApiError(inv[i].resps[1].thrown)

-----------------------------------------------------------------------------
(* Properties of the wire encoding *)

\* the values the encoded parameters hold under a key
ValuesAt(params, key) == {params[k].value : k \in {j \in DOMAIN params : params[j].key = key}}

FilterKey(g, f, part) ==
  <<"searchCriteria[filterGroups][", DigitChar(g), "][filters][", DigitChar(f), "]", part>>

SortKey(k, part) == <<"searchCriteria[sortOrders][", DigitChar(k), "]", part>>

Signed10(n) == IF n = 0 - 2 THEN <<"-", "2">> ELSE IF n = 1 THEN <<"1">> ELSE <<"1", "0">>

\* C27: buildSearchParams encodes filter f of group g, counted from zero,
\* under searchCriteria[filterGroups][g][filters][f][field] and [value], and
\* [conditionType] only when it is set; sort i under
\* searchCriteria[sortOrders][i][field] and [direction]; the page under
\* searchCriteria[currentPage] and searchCriteria[pageSize]; nothing under
\* filterGroups when the criteria have none; and no two components under one
\* key: the parameters are as many as the components and their keys differ.
C27_WireEncoding ==
  \A i \in Slots :
    LET r == inv[i]
        c == r.input
        groups == IF "filterGroups" \in DOMAIN c THEN c.filterGroups ELSE <<>>
        sorts == IF "sortOrders" \in DOMAIN c THEN c.sortOrders ELSE <<>>
        set(f) == "conditionType" \in DOMAIN f
        places == {gf \in (DOMAIN groups) \X {1, 2} : gf[2] <= Len(groups[gf[1]].filters)}
        parts == 2 * Cardinality(places)
                   + Cardinality({gf \in places : set(groups[gf[1]].filters[gf[2]])})
                   + 2 * Len(sorts)
                   + Cardinality(DOMAIN c \cap {"currentPage", "pageSize"})
    IN (r.tool = "buildSearchParams" /\ r.pc = "done") =>
         /\ \A gf \in places :
              LET f == groups[gf[1]].filters[gf[2]]
              IN /\ ValuesAt(r.result, FilterKey(gf[1] - 1, gf[2] - 1, "[field]")) = {<<f.field>>}
                 /\ ValuesAt(r.result, FilterKey(gf[1] - 1, gf[2] - 1, "[value]")) = {f.value}
                 /\ ValuesAt(r.result, FilterKey(gf[1] - 1, gf[2] - 1, "[conditionType]"))
                      = (IF set(f) THEN {<<f.conditionType>>} ELSE {})
         /\ \A k \in DOMAIN sorts :
              /\ ValuesAt(r.result, SortKey(k - 1, "[field]")) = {<<sorts[k].field>>}
              /\ ValuesAt(r.result, SortKey(k - 1, "[direction]")) = {<<sorts[k].direction>>}
         /\ ValuesAt(r.result, <<"searchCriteria[currentPage]">>)
              = (IF "currentPage" \in DOMAIN c THEN {Signed10(c.currentPage)} ELSE {})
         /\ ValuesAt(r.result, <<"searchCriteria[pageSize]">>)
              = (IF "pageSize" \in DOMAIN c THEN {Signed10(c.pageSize)} ELSE {})
         /\ "filterGroups" \notin DOMAIN c =>
              \A k \in DOMAIN r.result : r.result[k].key[1] # "searchCriteria[filterGroups]["
         /\ Len(r.result) = parts
         /\ \A a, b \in DOMAIN r.result : a # b => r.result[a].key # r.result[b].key

\* two groups, the second of two filters, one of them with no condition type
C27_Witness ==
  \E i \in Slots :
    /\ inv[i].tool = "buildSearchParams" /\ inv[i].pc = "done"
    /\ "filterGroups" \in DOMAIN inv[i].input /\ Len(inv[i].input.filterGroups) = 2
    /\ Len(inv[i].input.filterGroups[2].filters) = 2
    /\ ValuesAt(inv[i].result, FilterKey(1, 1, "[field]")) = {<<"sku">>}
    /\ ValuesAt(inv[i].result, FilterKey(1, 1, "[conditionType]")) = {}
    /\ ValuesAt(inv[i].result, FilterKey(1, 0, "[conditionType]")) = {<<"eq">>}
    /\ ValuesAt(inv[i].result, <<"searchCriteria[currentPage]">>) = {<<"1">>}

-----------------------------------------------------------------------------
(* Properties of update-order's call sequence *)

Issued(method, endpoint) == [method |-> method, endpoint |-> endpoint]

\* the calls update-order is to issue, in order, given its input and the
\* answers it has had so far
UpdatePlan(r) ==
  LET id == r.input.id
      hold == IF r.input.status \in {<<"holded">>, <<"on_hold">>}
              THEN <<Issued("POST", <<"orders/", id, "/hold">>)>>
              ELSE IF r.input.status = <<"unhold">>
              THEN <<Issued("POST", <<"orders/", id, "/unhold">>)>>
              ELSE <<>>
      comment == IF r.input.orderNote \notin {Absent, <<>>}
                 THEN <<Issued("POST", <<"orders/", id, "/comments">>)>> ELSE <<>>
      b == Len(hold) + Len(comment) + 1
      billing == IF ~r.input.billingAddress THEN <<>>
                 ELSE IF /\ Len(r.resps) >= b /\ r.resps[b].ok /\ r.resps[b].body.wellFormed
                         /\ r.resps[b].body.entity.billing_address # NoAddress
                 THEN <<Issued("GET", <<"orders/", id>>), Issued("PUT", <<"orders/", id>>)>>
                 ELSE <<Issued("GET", <<"orders/", id>>)>>
  IN hold \o comment \o billing \o <<Issued("GET", <<"orders/", id>>)>>

\* C28: update-order issues its calls in the order hold or unhold (by the
\* status), comment (for a non-empty orderNote), read and write of the billing
\* address (when one is supplied; the write only when the order read has one),
\* final read. The first call that fails is the last one issued and ends the
\* invocation with the failure envelope; the success envelope comes only after
\* the whole sequence was issued and its final read succeeded; with no status,
\* note or billing address the final read is the only call.
C28_FixedCallOrder ==
  \A i \in Slots :
    LET r == inv[i]
        plan == UpdatePlan(r)
    IN r.tool = "update-order" =>
         /\ Len(r.calls) >= 1 /\ Len(r.calls) <= Len(plan)
         /\ \A k \in DOMAIN r.calls : Issued(r.calls[k].method, r.calls[k].endpoint) = plan[k]
         /\ \A k \in DOMAIN r.resps :
              ~r.resps[k].ok =>
                /\ k = Len(r.calls) /\ r.pc = "done" /\ IsFailureEnvelope(r.result)
         /\ (r.pc = "done" /\ IsSuccessEnvelope(r.result)) =>
              /\ Len(r.calls) = Len(plan) /\ Len(r.resps) = Len(plan)
              /\ \A k \in DOMAIN r.resps : r.resps[k].ok
         /\ (r.input.status = Absent /\ r.input.orderNote = Absent /\ ~r.input.billingAddress) =>
              /\ Len(plan) = 1
              /\ r.pc = "done" => Len(r.resps) = 1

\* the comment fails after the hold succeeded: two calls, the failure envelope
C28_Witness ==
  \E i \in Slots :
    /\ inv[i].tool = "update-order" /\ inv[i].pc = "done"
    /\ inv[i].input.status = <<"on_hold">> /\ inv[i].input.billingAddress
    /\ Len(inv[i].calls) = 2 /\ Len(inv[i].resps) = 2
    /\ inv[i].resps[1].ok /\ ~inv[i].resps[2].ok
    /\ IsFailureEnvelope(inv[i].result)

-----------------------------------------------------------------------------
(* Properties of the amounts create-sales-order writes *)

\* the order the platform stores for a written entity, as it reads it back
StoredOrder(written) == [M2Orders[1] EXCEPT !.discount_amount = {written.discount_amount}]

\* C29: the entity create-sales-order posts has discount_amount = -d for an
\* orderDiscount d > 0 and 0 otherwise, so never a positive one; translated
\* back with mapM2OrderToOnx it shows orderDiscount = d for every d >= 0; and
\* with no totalPrice supplied its grand_total is the sum of its own subtotal,
\* shipping_amount, tax_amount and discount_amount.
C29_DiscountRoundTrip ==
  \A i \in Slots :
    LET r == inv[i]
        written == r.calls[1].arg.entity
        d == OrZero(r.input.orderDiscount)
    IN (r.tool = "create-sales-order" /\ Len(r.calls) >= 1) =>
         /\ written.discount_amount = (IF d > 0 THEN 0 - d ELSE 0)
         /\ written.discount_amount <= 0
         /\ d >= 0 => mapM2OrderToOnx(StoredOrder(written)).orderDiscount = d
         /\ r.input.totalPrice = NoNumber =>
              written.grand_total = written.subtotal + written.shipping_amount
                                      + written.tax_amount + written.discount_amount

\* a negative orderDiscount with no totalPrice: the total is raised by the
\* discount while the discount written is 0
C29_Witness ==
  \E i \in Slots :
    /\ inv[i].tool = "create-sales-order" /\ Len(inv[i].calls) >= 1
    /\ inv[i].input.orderDiscount = {0 - 1250} /\ inv[i].input.totalPrice = NoNumber
    /\ inv[i].calls[1].arg.entity.discount_amount = 0
    /\ inv[i].calls[1].arg.entity.grand_total
         = inv[i].calls[1].arg.entity.subtotal + inv[i].calls[1].arg.entity.shipping_amount
             + inv[i].calls[1].arg.entity.tax_amount + 1250

====
